---- MODULE Spec2Model ----
(***************************************************************************)
(* Model of the poker core of Draysongz/gamblingback:                      *)
(*   - PokerGameEngine   (services/PokerGameEngine.js): the hand rules,    *)
(*   - PokerRoomManager  (services/PokerRoomManager.js): the coordinator   *)
(*     that loads a room from Redis, applies the engine and stores it,     *)
(*   - PokerWebSocketHandler: the per-player room view.                    *)
(* A room is a record, as in the JSON snapshot the code stores in Redis.   *)
(* Every async method is split where it awaits the Redis GET: the read of  *)
(* the snapshot is one step, the synchronous rest up to the SET another.   *)
(***************************************************************************)
EXTENDS Integers, Sequences, FiniteSets, TLC

(***************************************************************************)
(* Bounds of the model                                                     *)
(***************************************************************************)
NumPlayers == 3     \* player ids 1..NumPlayers may call the API
MaxInflight == 2    \* requests that have read the room and not yet written
MaxHands == 3       \* hands started in one behaviour
NumSeeds == 2       \* random streams the shuffle may draw from
MaxRaces == 1       \* reads issued while another call is suspended
MaxCountdowns == 1  \* next-hand countdowns armed at once
MaxWagers == 2      \* accepted bet, raise and allin actions
MaxLeaves == 1      \* accepted leaveRoom calls

\* A behaviour spends one of these budgets: the bounds are not all reached
\* in the same behaviour.
Budget(hands, seeds, races, wagers, leaves) ==
  [hands |-> hands, seeds |-> seeds, races |-> races, wagers |-> wagers,
   leaves |-> leaves]
Budgets ==
  {Budget(1, NumSeeds, 0, MaxWagers, 0),     \* one hand, request after request
   Budget(1, 1, MaxRaces, 1, 0),             \* overlapping calls
   Budget(MaxHands, 1, 0, 0, 0),             \* a hand started after another
   Budget(1, 1, 0, 0, MaxLeaves),            \* a disconnection
   Budget(0, 1, MaxRaces, 0, MaxLeaves)}     \* ... between hands, calls overlapping

Players == 1..NumPlayers
Null == 0           \* JavaScript null / undefined id

(***************************************************************************)
(* Cards and deck                                                          *)
(***************************************************************************)
Suits == <<"hearts", "diamonds", "clubs", "spades">>
Ranks == <<"2", "3", "4", "5", "6", "7", "8", "9", "10", "J", "Q", "K", "A">>

\* createDeck: suits outer loop, ranks inner loop
createDeck ==
  [i \in 1..52 |-> [suit |-> Suits[((i - 1) \div 13) + 1],
                    rank |-> Ranks[((i - 1) % 13) + 1]]]

\* Math.floor(Math.random() * (i + 1)) for stream `seed`: some j in 0..i
RandomIndex(seed, i) ==
  IF seed = 0 THEN i
  ELSE IF seed = 1 THEN 0
  ELSE (i * seed + 7) % (i + 1)

Swap(s, a, b) == [s EXCEPT ![a] = s[b], ![b] = s[a]]

\* shuffleDeck: Fisher-Yates from the last index down to 1 (0-based i, j)
RECURSIVE ShuffleFrom(_, _, _)
ShuffleFrom(deck, seed, i) ==
  IF i <= 0 THEN deck
  ELSE ShuffleFrom(Swap(deck, i + 1, RandomIndex(seed, i) + 1), seed, i - 1)

shuffleDeck(deck, seed) == ShuffleFrom(deck, seed, Len(deck) - 1)

(***************************************************************************)
(* Hand evaluation                                                         *)
(***************************************************************************)
getRankValue(rank) ==
  CASE rank = "2" -> 2 [] rank = "3" -> 3 [] rank = "4" -> 4 [] rank = "5" -> 5
    [] rank = "6" -> 6 [] rank = "7" -> 7 [] rank = "8" -> 8 [] rank = "9" -> 9
    [] rank = "10" -> 10 [] rank = "J" -> 11 [] rank = "Q" -> 12
    [] rank = "K" -> 13 [] rank = "A" -> 14 [] OTHER -> 0

RECURSIVE Pow10(_)
Pow10(n) == IF n <= 0 THEN 1 ELSE 10 * Pow10(n - 1)

RECURSIVE SumSeq(_)
SumSeq(s) == IF s = <<>> THEN 0 ELSE Head(s) + SumSeq(Tail(s))

\* `const name = value` followed by code that uses the name
Let(value, Body(_)) == Body(value)

Take(s, n) == SubSeq(s, 1, IF Len(s) < n THEN Len(s) ELSE n)

\* the first index of s whose element satisfies Test, 0 if none (Array.findIndex + 1)
FirstIndex(s, Test(_)) ==
  IF \E i \in 1..Len(s) : Test(s[i])
  THEN CHOOSE i \in 1..Len(s) : Test(s[i]) /\ \A j \in 1..(i - 1) : ~Test(s[j])
  ELSE 0

\* s without repeated elements, first occurrences kept in order
RECURSIVE Dedup(_)
Dedup(s) ==
  IF s = <<>> THEN <<>>
  ELSE LET front == Dedup(SubSeq(s, 1, Len(s) - 1))
           last == s[Len(s)]
       IN IF \E i \in 1..Len(front) : front[i] = last THEN front
          ELSE Append(front, last)

\* Array.sort((a, b) => b.value - a.value): stable, descending by value
RECURSIVE InsertByValue(_, _)
InsertByValue(sorted, c) ==
  IF sorted = <<>> THEN <<c>>
  ELSE IF Head(sorted).value >= c.value
       THEN <<Head(sorted)>> \o InsertByValue(Tail(sorted), c)
       ELSE <<c>> \o sorted

RECURSIVE SortByValueDesc(_)
SortByValueDesc(cards) ==
  IF cards = <<>> THEN <<>>
  ELSE InsertByValue(SortByValueDesc(SubSeq(cards, 1, Len(cards) - 1)),
                     cards[Len(cards)])

\* a set of numbers as a descending sequence
RECURSIVE SetToDescSeq(_)
SetToDescSeq(S) ==
  IF S = {} THEN <<>>
  ELSE LET m == CHOOSE x \in S : \A y \in S : y <= x
       IN <<m>> \o SetToDescSeq(S \ {m})

\* Object.entries order of an object keyed by rank: integer-like keys first,
\* ascending, then the other keys in insertion order
IsIntegerKey(rank) == rank \in {"2", "3", "4", "5", "6", "7", "8", "9", "10"}

RankKeyOrder(cards) ==
  SelectSeq(Ranks, LAMBDA r : IsIntegerKey(r)
                              /\ \E i \in 1..Len(cards) : cards[i].rank = r)
  \o Dedup(SelectSeq([i \in 1..Len(cards) |-> cards[i].rank],
                     LAMBDA r : ~IsIntegerKey(r)))

groupByRank(cards) ==
  Let(RankKeyOrder(cards), LAMBDA keys :
    [k \in 1..Len(keys) |-> SelectSeq(cards, LAMBDA c : c.rank = keys[k])])

groupBySuit(cards) ==
  Let(Dedup([i \in 1..Len(cards) |-> cards[i].suit]), LAMBDA keys :
    [k \in 1..Len(keys) |-> SelectSeq(cards, LAMBDA c : c.suit = keys[k])])

isConsecutive(values) ==
  \A i \in 2..Len(values) : values[i] = values[i - 1] - 1

NoHand == [hit |-> FALSE, name |-> "none", score |-> 0, cards |-> <<>>]
HandResult(name, score, cards) ==
  [hit |-> TRUE, name |-> name, score |-> score, cards |-> cards]

FirstCardWithValue(cards, v) == cards[FirstIndex(cards, LAMBDA c : c.value = v)]

StraightOf(cards, sequence) ==
  HandResult("Straight", 4000 + sequence[1],
             [k \in 1..5 |-> FirstCardWithValue(cards, sequence[k])])

\* a straight check that scores the wheel by its ace
checkStraight_WheelByAce(cards) ==
  Let(SetToDescSeq({cards[i].value : i \in 1..Len(cards)}), LAMBDA uniqueValues :
    Let({i \in 1..(Len(uniqueValues) - 4) :
           isConsecutive(SubSeq(uniqueValues, i, i + 4))}, LAMBDA starts :
      IF starts # {}
      THEN Let(CHOOSE x \in starts : \A y \in starts : x <= y, LAMBDA i :
             StraightOf(cards, SubSeq(uniqueValues, i, i + 4)))
      ELSE IF {14, 5, 4, 3, 2} \subseteq {cards[i].value : i \in 1..Len(cards)}
           THEN HandResult("Straight", 4000 + 14,
                           [k \in 1..5 |->
                              FirstCardWithValue(cards, <<5, 4, 3, 2, 14>>[k])])
           ELSE NoHand))

\* the first run of five consecutive distinct values, else the wheel A-5-4-3-2
checkStraight(cards) ==
  Let(SetToDescSeq({cards[i].value : i \in 1..Len(cards)}), LAMBDA uniqueValues :
    Let({i \in 1..(Len(uniqueValues) - 4) :
           isConsecutive(SubSeq(uniqueValues, i, i + 4))}, LAMBDA starts :
      IF starts # {}
      THEN Let(CHOOSE x \in starts : \A y \in starts : x <= y, LAMBDA i :
             StraightOf(cards, SubSeq(uniqueValues, i, i + 4)))
      ELSE IF {14, 5, 4, 3, 2} \subseteq {cards[i].value : i \in 1..Len(cards)}
           THEN HandResult("Straight", 4000 + 5,
                           [k \in 1..5 |->
                              FirstCardWithValue(cards, <<5, 4, 3, 2, 14>>[k])])
           ELSE NoHand))

checkFlush(cards) ==
  Let(groupBySuit(cards), LAMBDA suitGroups :
    Let(FirstIndex(suitGroups, LAMBDA grp : Len(grp) >= 5), LAMBDA g :
      IF g = 0 THEN NoHand
      ELSE Let(Take(suitGroups[g], 5), LAMBDA bestFlushCards :
             HandResult("Flush",
                        5000 + SumSeq([k \in 1..5 |->
                                 bestFlushCards[k].value * Pow10(5 - k)]),
                        bestFlushCards))))

checkStraightFlush(cards) ==
  Let(checkFlush(cards), LAMBDA flush :
    IF ~flush.hit THEN NoHand
    ELSE Let(checkStraight(flush.cards), LAMBDA straight :
           IF ~straight.hit THEN NoHand
           ELSE HandResult("Straight Flush", 8000 + straight.cards[1].value,
                           straight.cards)))

checkRoyalFlush(cards) ==
  Let(checkStraightFlush(cards), LAMBDA straightFlush :
    IF straightFlush.hit /\ straightFlush.cards[1].value = 14
    THEN HandResult("Royal Flush", 9000 + straightFlush.cards[1].value,
                    straightFlush.cards)
    ELSE NoHand)

checkFourOfAKind(cards) ==
  Let(groupByRank(cards), LAMBDA groups :
    Let(FirstIndex(groups, LAMBDA grp : Len(grp) = 4), LAMBDA g :
      IF g = 0 THEN NoHand
      ELSE Let(FirstIndex(cards, LAMBDA c : c.value # groups[g][1].value),
             LAMBDA k :
               HandResult("Four of a Kind", 7000 + groups[g][1].value,
                          IF k # 0 THEN Append(groups[g], cards[k])
                          ELSE groups[g]))))

\* the first group of three and the first other group of at least two
checkFullHouse(cards) ==
  Let(groupByRank(cards), LAMBDA groups :
    Let(FirstIndex(groups, LAMBDA grp : Len(grp) = 3), LAMBDA t :
      Let({i \in 1..Len(groups) : Len(groups[i]) >= 2 /\ i # t},
        LAMBDA pairIdx :
          IF t = 0 \/ pairIdx = {} THEN NoHand
          ELSE Let(CHOOSE x \in pairIdx : \A y \in pairIdx : x <= y, LAMBDA p :
                 HandResult("Full House",
                            6000 + groups[t][1].value * 100 + groups[p][1].value,
                            groups[t] \o Take(groups[p], 2))))))

checkThreeOfAKind(cards) ==
  Let(groupByRank(cards), LAMBDA groups :
    Let(FirstIndex(groups, LAMBDA grp : Len(grp) = 3), LAMBDA t :
      IF t = 0 THEN NoHand
      ELSE Let(Take(SelectSeq(cards, LAMBDA c : c.value # groups[t][1].value), 2),
             LAMBDA kickers :
               HandResult("Three of a Kind",
                          3000 + groups[t][1].value * 100
                            + SumSeq([k \in 1..Len(kickers) |-> kickers[k].value]),
                          groups[t] \o kickers))))

\* the two highest pair values, then the first card of neither value
TwoPairResult(cards, hi, lo, k) ==
  HandResult("Two Pair",
             2000 + hi * 100 + lo * 10 + (IF k # 0 THEN cards[k].value ELSE 0),
             Take(SelectSeq(cards, LAMBDA c : c.value = hi), 2)
               \o Take(SelectSeq(cards, LAMBDA c : c.value = lo), 2)
               \o (IF k # 0 THEN <<cards[k]>> ELSE <<>>))

checkTwoPair(cards) ==
  Let(groupByRank(cards), LAMBDA groups :
    Let({groups[i][1].value : i \in {j \in 1..Len(groups) : Len(groups[j]) >= 2}},
      LAMBDA pairVals :
        IF Cardinality(pairVals) < 2 THEN NoHand
        ELSE Let(SetToDescSeq(pairVals), LAMBDA sorted :
               TwoPairResult(cards, sorted[1], sorted[2],
                 FirstIndex(cards, LAMBDA c : c.value # sorted[1]
                                              /\ c.value # sorted[2])))))

checkPair(cards) ==
  Let(groupByRank(cards), LAMBDA groups :
    Let(FirstIndex(groups, LAMBDA grp : Len(grp) >= 2), LAMBDA g :
      IF g = 0 THEN NoHand
      ELSE Let(Take(SelectSeq(cards, LAMBDA c : c.value # groups[g][1].value), 3),
             LAMBDA kickers :
               HandResult("Pair",
                          1000 + groups[g][1].value * 100
                            + SumSeq([k \in 1..Len(kickers) |->
                                        kickers[k].value * Pow10(3 - k)]),
                          Take(groups[g], 2) \o kickers))))

checkHighCard(cards) ==
  Let(Take(cards, 5), LAMBDA bestCards :
    HandResult("High Card",
               SumSeq([k \in 1..Len(bestCards) |->
                         bestCards[k].value * Pow10(5 - k)]),
               bestCards))

\* the checks of evaluateHand in the order the code tries them
handChecks(sortedCards) ==
  <<checkRoyalFlush(sortedCards), checkStraightFlush(sortedCards),
    checkFourOfAKind(sortedCards), checkFullHouse(sortedCards),
    checkFlush(sortedCards), checkStraight(sortedCards),
    checkThreeOfAKind(sortedCards), checkTwoPair(sortedCards),
    checkPair(sortedCards), checkHighCard(sortedCards)>>

WithValue(card) ==
  [rank |-> card.rank, suit |-> card.suit, value |-> getRankValue(card.rank)]

\* evaluateHand: the result of the first check that is not null
evaluateHand(playerHand, communityCards) ==
  Let(playerHand \o communityCards, LAMBDA allCards :
    IF Len(allCards) < 5
    THEN HandResult("Incomplete Hand", 0, <<>>)
    ELSE Let(handChecks(SortByValueDesc(
                          [i \in 1..Len(allCards) |-> WithValue(allCards[i])])),
           LAMBDA results : results[FirstIndex(results, LAMBDA r : r.hit)]))

(***************************************************************************)
(* PokerGameEngine: room state and player management                       *)
(***************************************************************************)
StartingChips == 1000

\* Outcome of an engine call: the room it returns, or the Error it throws
Ok(room) == [ok |-> TRUE, room |-> room, error |-> ""]
Throw(room, message) == [ok |-> FALSE, room |-> room, error |-> message]

\* chipsAtHandStart, removedBets and burned are history fields: the code keeps
\* none of them.  chipsAtHandStart[p] is the stack of p when the current hand
\* was started, removedBets the chips that seats removed since then had put
\* in the pot, burned the cards popped and discarded since then.
createInitialGameState(creatorId, maxPlayers, minBet) ==
  [creator |-> creatorId, players |-> <<>>, maxPlayers |-> maxPlayers,
   minBet |-> minBet, status |-> "waiting", phase |-> "waiting", pot |-> 0,
   currentBet |-> 0, currentTurn |-> Null, lastRaiser |-> Null,
   deck |-> <<>>, communityCards |-> <<>>, dealerIndex |-> 0,
   smallBlind |-> Null, bigBlind |-> Null, playersActedThisRound |-> <<>>,
   chipsAtHandStart |-> [p \in Players |-> 0], removedBets |-> 0,
   burned |-> <<>>]

PlayerIndex(room, playerId) ==
  FirstIndex(room.players, LAMBDA p : p.id = playerId)

InRoom(room, playerId) == PlayerIndex(room, playerId) # 0

Includes(s, x) == \E i \in 1..Len(s) : s[i] = x

RemoveAt(s, i) == SubSeq(s, 1, i - 1) \o SubSeq(s, i + 1, Len(s))

addPlayerToRoom(room, playerId) ==
  IF InRoom(room, playerId) THEN Throw(room, "Player already in room")
  ELSE IF Len(room.players) >= room.maxPlayers THEN Throw(room, "Room is full")
  ELSE Ok([room EXCEPT !.players =
             Append(@, [id |-> playerId, chips |-> StartingChips, bet |-> 0,
                        hand |-> <<>>, folded |-> FALSE, allIn |-> FALSE,
                        connected |-> TRUE])])

removePlayerFromRoom(room, playerId) ==
  LET playerIndex == PlayerIndex(room, playerId)
  IN IF playerIndex = 0 THEN Throw(room, "Player not in room")
     ELSE Ok([room EXCEPT
                !.players = RemoveAt(@, playerIndex),
                !.removedBets = @ + room.chipsAtHandStart[playerId]
                                  - room.players[playerIndex].chips])

(***************************************************************************)
(* PokerGameEngine: actions                                                *)
(***************************************************************************)
Min(a, b) == IF a < b THEN a ELSE b

\* a call that adds to the pot and to the bet without taking from the stack
processCall_KeepsChips(room, i) ==
  LET callAmount == room.currentBet - room.players[i].bet
  IN IF callAmount <= 0 THEN room
     ELSE [room EXCEPT !.players[i].bet = @ + callAmount, !.pot = @ + callAmount]

\* a call that pays the whole amount to call, whatever the chips of the seat
processCall_Uncapped(room, i) ==
  LET player == room.players[i]
      callAmount == room.currentBet - player.bet
  IN IF callAmount <= 0 THEN room
     ELSE [room EXCEPT !.players[i].chips = @ - callAmount,
                       !.players[i].bet = @ + callAmount,
                       !.players[i].allIn = (@ \/ player.chips - callAmount = 0),
                       !.pot = @ + callAmount]

processCall(room, i) ==
  LET player == room.players[i]
      callAmount == room.currentBet - player.bet
      actualCall == Min(callAmount, player.chips)
  IN IF callAmount <= 0 THEN room
     ELSE [room EXCEPT !.players[i].chips = @ - actualCall,
                       !.players[i].bet = @ + actualCall,
                       !.players[i].allIn = (@ \/ player.chips - actualCall = 0),
                       !.pot = @ + actualCall]

\* a bet that is not held to the minimum bet
processBet_NoMinimum(room, i, amount) ==
  LET player == room.players[i]
  IN IF room.currentBet > 0
       THEN Throw(room, "Cannot bet when there is already a bet")
     ELSE IF amount > player.chips THEN Throw(room, "Not enough chips")
     ELSE Ok([room EXCEPT !.players[i].chips = @ - amount,
                          !.players[i].bet = amount,
                          !.players[i].allIn = (@ \/ player.chips - amount = 0),
                          !.pot = @ + amount,
                          !.currentBet = amount,
                          !.lastRaiser = player.id,
                          !.playersActedThisRound = <<player.id>>])

processBet(room, i, amount) ==
  LET player == room.players[i]
  IN IF room.currentBet > 0
       THEN Throw(room, "Cannot bet when there is already a bet")
     ELSE IF amount < room.minBet THEN Throw(room, "Bet must be at least minBet")
     ELSE IF amount > player.chips THEN Throw(room, "Not enough chips")
     ELSE Ok([room EXCEPT !.players[i].chips = @ - amount,
                          !.players[i].bet = amount,
                          !.players[i].allIn = (@ \/ player.chips - amount = 0),
                          !.pot = @ + amount,
                          !.currentBet = amount,
                          !.lastRaiser = player.id,
                          !.playersActedThisRound = <<player.id>>])

\* a raise that adds its seat to the acted set instead of resetting the set
processRaise_KeepsActed(room, i, raiseAmount) ==
  LET player == room.players[i]
      totalBet == room.currentBet + raiseAmount
      additionalAmount == totalBet - player.bet
  IN IF totalBet > player.chips + player.bet THEN Throw(room, "Not enough chips")
     ELSE IF raiseAmount < room.minBet
       THEN Throw(room, "Raise must be at least minBet")
     ELSE Ok([room EXCEPT !.players[i].chips = @ - additionalAmount,
                          !.players[i].bet = totalBet,
                          !.players[i].allIn =
                             (@ \/ player.chips - additionalAmount = 0),
                          !.pot = @ + additionalAmount,
                          !.currentBet = totalBet,
                          !.lastRaiser = player.id,
                          !.playersActedThisRound = Append(@, player.id)])

processRaise(room, i, raiseAmount) ==
  LET player == room.players[i]
      totalBet == room.currentBet + raiseAmount
      additionalAmount == totalBet - player.bet
  IN IF totalBet > player.chips + player.bet THEN Throw(room, "Not enough chips")
     ELSE IF raiseAmount < room.minBet
       THEN Throw(room, "Raise must be at least minBet")
     ELSE Ok([room EXCEPT !.players[i].chips = @ - additionalAmount,
                          !.players[i].bet = totalBet,
                          !.players[i].allIn =
                             (@ \/ player.chips - additionalAmount = 0),
                          !.pot = @ + additionalAmount,
                          !.currentBet = totalBet,
                          !.lastRaiser = player.id,
                          !.playersActedThisRound = <<player.id>>])

processAllIn(room, i) ==
  LET player == room.players[i]
      allInAmount == player.chips
      newBet == player.bet + allInAmount
      moved == [room EXCEPT !.pot = @ + allInAmount,
                            !.players[i].bet = newBet,
                            !.players[i].chips = 0,
                            !.players[i].allIn = TRUE]
  IN IF player.chips <= 0 THEN Throw(room, "No chips to go all-in with")
     ELSE IF newBet > room.currentBet
       THEN Ok([moved EXCEPT !.currentBet = newBet,
                             !.lastRaiser = player.id,
                             !.playersActedThisRound = <<player.id>>])
     ELSE Ok(moved)

\* the body of the switch in processPlayerAction
ApplyActionCase(room, i, action, amount) ==
  IF action = "fold" THEN Ok([room EXCEPT !.players[i].folded = TRUE])
  ELSE IF action = "check"
    THEN IF room.currentBet > room.players[i].bet
         THEN Throw(room, "Cannot check when there is a bet to call")
         ELSE Ok(room)
  ELSE IF action = "call" THEN Ok(processCall(room, i))
  ELSE IF action = "bet" THEN processBet(room, i, amount)
  ELSE IF action = "raise" THEN processRaise(room, i, amount)
  ELSE IF action = "allin" THEN processAllIn(room, i)
  ELSE Throw(room, "Invalid action")

\* the end of processPlayerAction: the player is recorded as having acted
MarkActed(room, playerId, res) ==
  IF ~res.ok THEN Throw(room, res.error)
  ELSE Ok([res.room EXCEPT !.playersActedThisRound =
             IF Includes(@, playerId) THEN @ ELSE Append(@, playerId)])

processPlayerAction(room, playerId, action, amount) ==
  Let(PlayerIndex(room, playerId), LAMBDA i :
    IF i = 0 THEN Throw(room, "Player not found")
    ELSE IF room.currentTurn # playerId THEN Throw(room, "Not your turn")
    ELSE IF room.players[i].folded THEN Throw(room, "Player has folded")
    ELSE MarkActed(room, playerId, ApplyActionCase(room, i, action, amount)))

(***************************************************************************)
(* PokerGameEngine: hand flow                                              *)
(***************************************************************************)
\* one blind: Math.min(amount, player.chips) moves from the stack to the pot
PostBlind(room, i, amount) ==
  Let(Min(amount, room.players[i].chips), LAMBDA post :
    [room EXCEPT !.players[i].chips = @ - post,
                 !.players[i].bet = post,
                 !.players[i].allIn = (@ \/ room.players[i].chips - post = 0),
                 !.pot = @ + post])

postBlinds(room) ==
  Let(PlayerIndex(room, room.bigBlind), LAMBDA bb :
    Let(PostBlind(PostBlind(room, PlayerIndex(room, room.smallBlind),
                            room.minBet \div 2),
                  bb, room.minBet),
      LAMBDA r2 : [r2 EXCEPT !.currentBet = r2.players[bb].bet,
                             !.lastRaiser = room.bigBlind]))

BlindSeats(room, activePlayers, n, dealerIndex) ==
  [room EXCEPT
     !.dealerIndex = dealerIndex,
     !.smallBlind =
        IF n = 2 THEN activePlayers[dealerIndex + 1].id
        ELSE activePlayers[((dealerIndex + 1) % n) + 1].id,
     !.bigBlind =
        IF n = 2 THEN activePlayers[((dealerIndex + 1) % n) + 1].id
        ELSE activePlayers[((dealerIndex + 2) % n) + 1].id]

assignDealerAndBlinds(room) ==
  Let(SelectSeq(room.players, LAMBDA p : p.chips > 0), LAMBDA activePlayers :
    IF Len(activePlayers) < 2 THEN room
    ELSE postBlinds(BlindSeats(room, activePlayers, Len(activePlayers),
                               room.dealerIndex % Len(activePlayers))))

\* player.hand.push(room.deck.pop()) for each player index of `order` in turn
RECURSIVE DealTo(_, _)
DealTo(room, order) ==
  IF order = <<>> THEN room
  ELSE LET i == Head(order)
           n == Len(room.deck)
       IN IF n > 0
          THEN DealTo([room EXCEPT !.players[i].hand = Append(@, room.deck[n]),
                                   !.deck = SubSeq(@, 1, n - 1)],
                      Tail(order))
          ELSE DealTo(room, Tail(order))

dealHoleCards(room) ==
  LET seats == [i \in 1..Len(room.players) |-> i]
  IN DealTo(room, seats \o seats)

\* the while loop shared by setFirstPlayerToAct and setFirstPlayerPostFlop:
\* from 0-based index `first`, skip folded and all-in seats, stop after one lap
RECURSIVE SkipInactive(_, _, _)
SkipInactive(players, currentIndex, first) ==
  IF players[currentIndex + 1].folded \/ players[currentIndex + 1].allIn
  THEN LET next == (currentIndex + 1) % Len(players)
       IN IF next = first THEN next ELSE SkipInactive(players, next, first)
  ELSE currentIndex

setFirstPlayerToAct(room) ==
  LET activePlayers == SelectSeq(room.players, LAMBDA p : ~p.folded /\ ~p.allIn)
      bbIndex == PlayerIndex(room, room.bigBlind) - 1
      firstPlayerIndex == (bbIndex + 1) % Len(room.players)
  IN IF Len(activePlayers) = 0 THEN room
     ELSE [room EXCEPT !.currentTurn =
             room.players[SkipInactive(room.players, firstPlayerIndex,
                                       firstPlayerIndex) + 1].id]

\* the fields startNewHand resets before it assigns the blinds
ResetForHand(room, seed) ==
  [room EXCEPT
     !.status = "playing", !.phase = "preflop", !.pot = 0,
     !.communityCards = <<>>, !.currentBet = 0, !.lastRaiser = Null,
     !.playersActedThisRound = <<>>,
     !.players = [i \in 1..Len(room.players) |->
                    [room.players[i] EXCEPT !.hand = <<>>, !.bet = 0,
                       !.folded = FALSE, !.allIn = FALSE]],
     !.deck = shuffleDeck(createDeck, seed),
     !.chipsAtHandStart =
        [p \in Players |->
           IF InRoom(room, p)
           THEN room.players[PlayerIndex(room, p)].chips ELSE 0],
     !.removedBets = 0,
     !.burned = <<>>]

startNewHand(room, seed) ==
  IF Len(room.players) < 2 THEN Throw(room, "Need at least 2 players to start")
  ELSE Ok(setFirstPlayerToAct(dealHoleCards(assignDealerAndBlinds(
            ResetForHand(room, seed)))))

\* a round taken for complete once the bets are matched, whoever has acted
isRoundComplete_BetsMatched(room) ==
  LET activePlayers == SelectSeq(room.players, LAMBDA p : ~p.folded)
      playingPlayers == SelectSeq(activePlayers, LAMBDA p : ~p.allIn)
      playersNeedingAction ==
        SelectSeq(playingPlayers,
                  LAMBDA p : room.currentBet > 0 /\ p.bet < room.currentBet)
  IN IF Len(activePlayers) <= 1 THEN TRUE
     ELSE IF Len(playingPlayers) <= 1 THEN TRUE
     ELSE Len(playersNeedingAction) = 0

isRoundComplete(room) ==
  LET activePlayers == SelectSeq(room.players, LAMBDA p : ~p.folded)
      playingPlayers == SelectSeq(activePlayers, LAMBDA p : ~p.allIn)
      playersNeedingAction ==
        SelectSeq(playingPlayers,
                  LAMBDA p : ~Includes(room.playersActedThisRound, p.id)
                             \/ (room.currentBet > 0 /\ p.bet < room.currentBet))
  IN IF Len(activePlayers) <= 1 THEN TRUE
     ELSE IF Len(playingPlayers) <= 1 THEN TRUE
     ELSE Len(playersNeedingAction) = 0

\* with at least `need` cards in the deck: room.deck.pop() once for the burn
\* card, then `deal` times onto the board
BurnAndDeal(room, need, deal) ==
  LET n == Len(room.deck)
  IN IF n >= need
     THEN [room EXCEPT
             !.burned = Append(@, room.deck[n]),
             !.communityCards = @ \o [k \in 1..deal |-> room.deck[n - k]],
             !.deck = SubSeq(@, 1, n - 1 - deal)]
     ELSE room

dealFlop(room) == BurnAndDeal(room, 4, 3)
dealTurn(room) == BurnAndDeal(room, 2, 1)
dealRiver(room) == BurnAndDeal(room, 2, 1)

setFirstPlayerPostFlop(room) ==
  LET activePlayers == SelectSeq(room.players, LAMBDA p : ~p.folded /\ ~p.allIn)
      first == (room.dealerIndex + 1) % Len(room.players)
  IN IF Len(activePlayers) = 0 THEN room
     ELSE [room EXCEPT !.currentTurn =
             room.players[SkipInactive(room.players, first, first) + 1].id]

\* a split that divides the pot by the seats shown down, not by the winners
SplitPot_AmongShown(room, activeIdx, winners) ==
  [room |-> [room EXCEPT !.players =
               [i \in 1..Len(room.players) |->
                  [room.players[i] EXCEPT !.chips =
                     IF FirstIndex(winners, LAMBDA w : w = i) = 0 THEN @
                     ELSE @ + (room.pot \div Len(activeIdx))]]],
   type |-> "showdown",
   hands |-> {room.players[activeIdx[k]].id : k \in 1..Len(activeIdx)},
   winners |-> [k \in 1..Len(winners) |-> room.players[winners[k]].id]]

\* the pot split among `winners` (player indexes in seat order): the floor of
\* the share each, one more chip to the first `remainder` of them
SplitPot(room, activeIdx, winners) ==
  LET winAmount == room.pot \div Len(winners)
      remainder == room.pot % Len(winners)
      place(i) == FirstIndex(winners, LAMBDA w : w = i)
      amountOf(i) ==
        IF place(i) = 0 THEN 0
        ELSE winAmount + (IF place(i) - 1 < remainder THEN 1 ELSE 0)
  IN [room |-> [room EXCEPT !.players =
                  [i \in 1..Len(room.players) |->
                     [room.players[i] EXCEPT !.chips = @ + amountOf(i)]]],
      type |-> "showdown",
      hands |-> {room.players[activeIdx[k]].id : k \in 1..Len(activeIdx)},
      winners |-> [k \in 1..Len(winners) |-> room.players[winners[k]].id]]

\* results.sort((a, b) => b.score - a.score) is stable, so the winners keep
\* the seat order of room.players
processShowdown(room) ==
  Let(SelectSeq([i \in 1..Len(room.players) |-> i],
                LAMBDA i : ~room.players[i].folded), LAMBDA activeIdx :
    IF Len(activeIdx) = 0
      THEN [room |-> room, type |-> "showdown", hands |-> {}, winners |-> <<>>]
    ELSE IF Len(activeIdx) = 1
      THEN [room |-> [room EXCEPT !.players[activeIdx[1]].chips = @ + room.pot],
            type |-> "single_winner", hands |-> {},
            winners |-> <<room.players[activeIdx[1]].id>>]
    ELSE Let([i \in 1..Len(room.players) |->
                evaluateHand(room.players[i].hand, room.communityCards).score],
           LAMBDA score :
             SplitPot(room, activeIdx,
               SelectSeq(activeIdx,
                 LAMBDA i : \A k \in 1..Len(activeIdx) :
                              score[activeIdx[k]] <= score[i]))))

\* the reset at the end of moveToNextPhase
ResetBettingRound(room) ==
  setFirstPlayerPostFlop(
    [room EXCEPT !.currentBet = 0, !.lastRaiser = Null,
                 !.playersActedThisRound = <<>>,
                 !.players = [i \in 1..Len(room.players) |->
                                [room.players[i] EXCEPT !.bet = 0]]])

NoShowdown(room) ==
  [room |-> room, type |-> "none", hands |-> {}, winners |-> <<>>]

moveToNextPhase(room) ==
  IF room.phase = "preflop"
    THEN NoShowdown(ResetBettingRound([dealFlop(room) EXCEPT !.phase = "flop"]))
  ELSE IF room.phase = "flop"
    THEN NoShowdown(ResetBettingRound([dealTurn(room) EXCEPT !.phase = "turn"]))
  ELSE IF room.phase = "turn"
    THEN NoShowdown(ResetBettingRound([dealRiver(room) EXCEPT !.phase = "river"]))
  ELSE IF room.phase = "river"
    THEN processShowdown([room EXCEPT !.phase = "showdown"])
  ELSE NoShowdown(ResetBettingRound(room))

(***************************************************************************)
(* Room views                                                              *)
(***************************************************************************)
Hidden == [hidden |-> TRUE]

HideHand(player) ==
  [player EXCEPT !.hand = [k \in 1..Len(player.hand) |-> Hidden]]

\* PokerRoomManager.sanitizeRoomForBroadcast: one view for all subscribers
sanitizeRoomForBroadcast(room) ==
  IF room.phase # "showdown"
  THEN [room EXCEPT !.players =
          [i \in 1..Len(room.players) |-> HideHand(room.players[i])]]
  ELSE room

\* PokerWebSocketHandler.createPlayerSpecificRoomView
createPlayerSpecificRoomView(room, playerId) ==
  IF room.phase # "showdown"
  THEN [room EXCEPT !.players =
          [i \in 1..Len(room.players) |->
             IF room.players[i].id = playerId THEN room.players[i]
             ELSE HideHand(room.players[i])]]
  ELSE room

\* a message handed to WebSocketService.broadcastToRoom
Message(type, room, hands) ==
  [type |-> type, room |-> sanitizeRoomForBroadcast(room), hands |-> hands]

(***************************************************************************)
(* PokerRoomManager: state                                                 *)
(***************************************************************************)
VARIABLES
  stored,                 \* the room snapshot under poker:room:<id> in Redis
  inflight,               \* calls suspended at an await, each with its room object
  playerTimeouts,         \* players whose turn timer is armed
  reconnectionTimeouts,   \* players whose reconnection timer is armed
  nextHandTimers,         \* armed next-hand countdowns
  sent,                   \* the messages broadcast by the latest step that sent any
  budget                  \* what the behaviour may still use of each bound

vars == <<stored, inflight, playerTimeouts, reconnectionTimeouts,
          nextHandTimers, sent, budget>>

DefaultMaxPlayers == 6
DefaultMinBet == 10
Creator == 1

\* the actions a client may send: the engine's six, an unknown one, a bet
\* below the minimum bet and amounts a stack may or may not cover
Input(action, amount) == [action |-> action, amount |-> amount]
Inputs == {Input("fold", 0), Input("check", 0), Input("call", 0),
           Input("bet", 5), Input("bet", 400), Input("raise", 400),
           Input("allin", 0), Input("all-in", 0)}
Wagers == {"bet", "raise", "allin"}

\* a call suspended at an await
Call(kind, player, room) == [kind |-> kind, player |-> player, room |-> room]

Init ==
  /\ stored = createInitialGameState(Creator, DefaultMaxPlayers, DefaultMinBet)
  /\ inflight = <<>>
  /\ playerTimeouts = {}
  /\ reconnectionTimeouts = {}
  /\ nextHandTimers = 0
  /\ sent = <<>>
  /\ budget \in Budgets

(***************************************************************************)
(* PokerRoomManager: game state checks                                     *)
(***************************************************************************)
checkGameState(room) ==
  LET activePlayers == SelectSeq(room.players, LAMBDA p : ~p.folded /\ p.connected)
      playingPlayers == SelectSeq(activePlayers, LAMBDA p : ~p.allIn)
  IN IF Len(activePlayers) <= 1 THEN "gameEnded"
     ELSE IF Len(playingPlayers) <= 1 /\ Len(activePlayers) > 1 THEN "gameEnded"
     ELSE IF isRoundComplete(room) THEN "roundComplete"
     ELSE "continue"

moveToNextPlayer(room) ==
  LET activePlayers ==
        SelectSeq(room.players, LAMBDA p : ~p.folded /\ ~p.allIn /\ p.connected)
      currentIndex == FirstIndex(activePlayers, LAMBDA p : p.id = room.currentTurn)
  IN IF Len(activePlayers) <= 1
     THEN [room EXCEPT !.currentTurn =
             IF Len(activePlayers) = 1 THEN activePlayers[1].id ELSE Null]
     ELSE IF currentIndex = 0 THEN [room EXCEPT !.currentTurn = activePlayers[1].id]
     ELSE [room EXCEPT !.currentTurn =
             activePlayers[(currentIndex % Len(activePlayers)) + 1].id]

EnoughForNextHand(room) ==
  Len(SelectSeq(room.players, LAMBDA p : p.chips > 0 /\ p.connected)) >= 2

\* handleWaitingForPlayers, up to its updateRoom
WaitingRoom(room) == [room EXCEPT !.status = "waiting", !.phase = "waiting"]

\* What processPlayerAction does with the room it has read, up to its
\* updateRoom: the room to write, the turn timer to arm, the countdowns to
\* start and the broadcasts made on the way.  handleGameEnd is called but
\* not defined by the class, so the call throws a TypeError.
Outcome(room, arm, countdown, messages) ==
  [ok |-> TRUE, error |-> "", room |-> room, arm |-> arm,
   countdown |-> countdown, sent |-> messages]

Rejected(room, message) ==
  [ok |-> FALSE, error |-> message, room |-> room, arm |-> Null,
   countdown |-> 0, sent |-> <<>>]

\* handleRoundComplete on the result of moveToNextPhase.  Without two
\* connected players with chips, handleWaitingForPlayers writes the room and
\* processPlayerAction writes the same object again: one write here.
handleRoundComplete(result) ==
  IF result.room.phase = "showdown"
  THEN IF EnoughForNextHand(result.room)
       THEN Outcome(result.room, Null, 1,
                    <<Message("showdown", result.room, result.hands),
                      Message("new_game_countdown", result.room, {})>>)
       ELSE Outcome(WaitingRoom(result.room), Null, 0,
                    <<Message("showdown", result.room, result.hands),
                      Message("waiting_for_players",
                              WaitingRoom(result.room), {})>>)
  ELSE Outcome(result.room, result.room.currentTurn, 0,
               <<Message("phase_change", result.room, {})>>)

\* the branch of processPlayerAction on checkGameState
AfterAction(room, res, state) ==
  IF ~res.ok THEN Rejected(room, res.error)
  ELSE IF state = "gameEnded"
    THEN Rejected(room, "this.handleGameEnd is not a function")
  ELSE IF state = "roundComplete"
    THEN handleRoundComplete(moveToNextPhase(res.room))
  ELSE Let(moveToNextPlayer(res.room), LAMBDA room2 :
         Outcome(room2, room2.currentTurn, 0, <<>>))

ActionOutcome(room, playerId, action, amount) ==
  Let(processPlayerAction(room, playerId, action, amount), LAMBDA res :
    AfterAction(room, res, checkGameState(res.room)))

(***************************************************************************)
(* PokerRoomManager: requests.  A request first reads the room (ReadRoom); *)
(* which method it is and with which arguments is chosen when it resumes.  *)
(***************************************************************************)
Drop(k) == RemoveAt(inflight, k)
Resume(k, call) == [inflight EXCEPT ![k] = call]
Suspended(k, kind) == k \in 1..Len(inflight) /\ inflight[k].kind = kind

\* 1 when the read about to be issued overlaps a suspended call
Overlap == IF inflight = <<>> THEN 0 ELSE 1

\* a call issues its GET and is suspended with what the GET returns
Read(kind, playerId) ==
  /\ Len(inflight) < MaxInflight
  /\ budget.races >= Overlap
  /\ inflight' = Append(inflight, Call(kind, playerId, stored))
  /\ budget' = [budget EXCEPT !.races = @ - Overlap]

\* await this.getRoom(roomId) of joinRoom, leaveRoom, startGame and
\* processPlayerAction
ReadRoom ==
  /\ Read("request", Null)
  /\ UNCHANGED <<stored, playerTimeouts, reconnectionTimeouts, nextHandTimers,
                 sent>>

\* joinRoom after getRoom, up to updateRoom
JoinRoom(k, playerId) ==
  LET room == inflight[k].room
      i == PlayerIndex(room, playerId)
      added == addPlayerToRoom(room, playerId)
  IN /\ Suspended(k, "request")
     /\ IF room.status # "waiting" THEN
          /\ inflight' = Drop(k)
          /\ UNCHANGED <<stored, sent>>
        ELSE IF i # 0 THEN
          /\ stored' = [room EXCEPT !.players[i].connected = TRUE]
          /\ inflight' = Resume(k, Call("joinTail", playerId, stored'))
          /\ UNCHANGED sent
        ELSE IF added.ok THEN
          /\ stored' = added.room
          /\ sent' = <<Message("player_joined", added.room, {})>>
          /\ inflight' = Drop(k)
        ELSE
          /\ inflight' = Drop(k)
          /\ UNCHANGED <<stored, sent>>
     /\ UNCHANGED <<playerTimeouts, reconnectionTimeouts, nextHandTimers, budget>>

\* joinRoom of a seated player after updateRoom
JoinRoomTail(k) ==
  /\ Suspended(k, "joinTail")
  /\ reconnectionTimeouts' = reconnectionTimeouts \ {inflight[k].player}
  /\ sent' = <<Message("player_reconnected", inflight[k].room, {})>>
  /\ inflight' = Drop(k)
  /\ UNCHANGED <<stored, playerTimeouts, nextHandTimers, budget>>

\* leaveRoom after getRoom, up to updateRoom
LeaveRoom(k, playerId) ==
  LET room == inflight[k].room
      i == PlayerIndex(room, playerId)
  IN /\ Suspended(k, "request")
     /\ IF i # 0 THEN
          /\ budget.leaves > 0
          /\ stored' = [room EXCEPT !.players[i].connected = FALSE]
          /\ reconnectionTimeouts' = reconnectionTimeouts \cup {playerId}
          /\ inflight' = Resume(k, Call("leaveTail", playerId, stored'))
          /\ budget' = [budget EXCEPT !.leaves = @ - 1]
          /\ UNCHANGED playerTimeouts
        ELSE
          /\ playerTimeouts' = playerTimeouts \ {playerId}
          /\ inflight' = Drop(k)
          /\ UNCHANGED <<stored, reconnectionTimeouts, budget>>
     /\ UNCHANGED <<nextHandTimers, sent>>

\* leaveRoom after updateRoom
LeaveRoomTail(k) ==
  /\ Suspended(k, "leaveTail")
  /\ sent' = <<Message("player_disconnected", inflight[k].room, {})>>
  /\ playerTimeouts' = playerTimeouts \ {inflight[k].player}
  /\ inflight' = Drop(k)
  /\ UNCHANGED <<stored, reconnectionTimeouts, nextHandTimers, budget>>

\* the checks of startGame on the room it read: the error thrown, "" if none
StartError(room, playerId) ==
  LET connectedPlayers == SelectSeq(room.players, LAMBDA p : p.connected)
  IN IF room.creator # playerId
       THEN "Only room creator can start the game"
     ELSE IF Len(connectedPlayers) < 2
       THEN "Need at least 2 connected players to start"
     ELSE ""

\* a hand started on the room of call k: written, then the tail of the caller
WriteHand(k, res) ==
  IF res.ok THEN
    /\ stored' = res.room
    /\ budget' = [budget EXCEPT !.hands = @ - 1]
    /\ inflight' = Resume(k, Call("startTail", res.room.currentTurn, res.room))
  ELSE
    /\ inflight' = Drop(k)
    /\ UNCHANGED <<stored, budget>>

StartHand(k, seed) ==
  /\ budget.hands > 0
  /\ WriteHand(k, startNewHand(inflight[k].room, seed))

\* startGame after getRoom, up to updateRoom
StartGame(k, playerId, seed) ==
  /\ Suspended(k, "request")
  /\ IF StartError(inflight[k].room, playerId) # "" THEN
       /\ inflight' = Drop(k)
       /\ UNCHANGED <<stored, budget>>
     ELSE StartHand(k, seed)
  /\ UNCHANGED <<playerTimeouts, reconnectionTimeouts, nextHandTimers, sent>>

\* startGame and the next-hand countdown after updateRoom
StartTail(k) ==
  /\ Suspended(k, "startTail")
  /\ playerTimeouts' = IF inflight[k].player # Null
                       THEN playerTimeouts \cup {inflight[k].player}
                       ELSE playerTimeouts
  /\ sent' = <<Message("game_started", inflight[k].room, {})>>
  /\ inflight' = Drop(k)
  /\ UNCHANGED <<stored, reconnectionTimeouts, nextHandTimers, budget>>

\* processPlayerAction after getRoom, up to the first updateRoom
Commit(k, playerId, wager, out) ==
  IF ~out.ok THEN
    /\ playerTimeouts' = playerTimeouts \ {playerId}
    /\ inflight' = Drop(k)
    /\ UNCHANGED <<stored, nextHandTimers, sent, budget>>
  ELSE
    /\ nextHandTimers + out.countdown <= MaxCountdowns
    /\ budget.wagers >= wager
    /\ stored' = out.room
    /\ playerTimeouts' = IF out.arm # Null
                         THEN (playerTimeouts \ {playerId}) \cup {out.arm}
                         ELSE playerTimeouts \ {playerId}
    /\ nextHandTimers' = nextHandTimers + out.countdown
    /\ budget' = [budget EXCEPT !.wagers = @ - wager]
    /\ sent' = out.sent \o <<Message("player_action", out.room, {})>>
    /\ inflight' = Drop(k)

ApplyAction(k, playerId, action, amount) ==
  Commit(k, playerId, IF action \in Wagers THEN 1 ELSE 0,
         ActionOutcome(inflight[k].room, playerId, action, amount))

PlayerAction(k, playerId, action, amount) ==
  /\ Suspended(k, "request")
  /\ ApplyAction(k, playerId, action, amount)
  /\ UNCHANGED reconnectionTimeouts

(***************************************************************************)
(* PokerRoomManager: timers                                                *)
(***************************************************************************)
\* the callback of setPlayerTimeout starts: processPlayerAction issues its GET
TurnTimerFires(playerId) ==
  /\ playerId \in playerTimeouts
  /\ Read("timeout", playerId)
  /\ playerTimeouts' = playerTimeouts \ {playerId}
  /\ UNCHANGED <<stored, reconnectionTimeouts, nextHandTimers, sent>>

\* ... and resumes: processPlayerAction(roomId, playerId, "fold"), errors logged
TimeoutFold(k) ==
  /\ Suspended(k, "timeout")
  /\ ApplyAction(k, inflight[k].player, "fold", 0)
  /\ UNCHANGED reconnectionTimeouts

\* the callback of setReconnectionTimeout starts: getRoom
ReconnectionTimerFires(playerId) ==
  /\ playerId \in reconnectionTimeouts
  /\ Read("reconnect", playerId)
  /\ reconnectionTimeouts' = reconnectionTimeouts \ {playerId}
  /\ UNCHANGED <<stored, playerTimeouts, nextHandTimers, sent>>

\* ... and resumes: removePlayerFromRoom, updateRoom, broadcast
WriteRemoval(res) ==
  IF res.ok THEN
    /\ stored' = res.room
    /\ sent' = <<Message("player_left", res.room, {})>>
  ELSE UNCHANGED <<stored, sent>>

RemoveDisconnected(k) ==
  /\ Suspended(k, "reconnect")
  /\ WriteRemoval(removePlayerFromRoom(inflight[k].room, inflight[k].player))
  /\ inflight' = Drop(k)
  /\ UNCHANGED <<playerTimeouts, reconnectionTimeouts, nextHandTimers, budget>>

\* the callback of the countdown of scheduleNextHand starts: getRoom
NextHandTimerFires ==
  /\ nextHandTimers > 0
  /\ Read("nexthand", Null)
  /\ nextHandTimers' = nextHandTimers - 1
  /\ UNCHANGED <<stored, playerTimeouts, reconnectionTimeouts, sent>>

\* ... and resumes: startNewHand or handleWaitingForPlayers
AutoStart(k, seed) ==
  LET latestRoom == inflight[k].room
  IN /\ Suspended(k, "nexthand")
     /\ IF EnoughForNextHand(latestRoom) THEN
          /\ StartHand(k, seed)
          /\ UNCHANGED sent
        ELSE
          /\ stored' = WaitingRoom(latestRoom)
          /\ sent' = <<Message("waiting_for_players", stored', {})>>
          /\ inflight' = Drop(k)
          /\ UNCHANGED budget
     /\ UNCHANGED <<playerTimeouts, reconnectionTimeouts, nextHandTimers>>

\* players take seats in id order; a seated player may join again
JoinInputs ==
  {p \in Players : InRoom(stored, p) \/ \A q \in 1..(p - 1) : InRoom(stored, q)}

Next ==
  \/ ReadRoom
  \/ \E k \in 1..Len(inflight) : \E p \in JoinInputs : JoinRoom(k, p)
  \/ \E k \in 1..Len(inflight) : JoinRoomTail(k)
  \/ \E k \in 1..Len(inflight) : \E p \in Players : LeaveRoom(k, p)
  \/ \E k \in 1..Len(inflight) : LeaveRoomTail(k)
  \/ \E k \in 1..Len(inflight) : \E p \in Players : \E seed \in 0..(budget.seeds - 1) :
       StartGame(k, p, seed)
  \/ \E k \in 1..Len(inflight) : StartTail(k)
  \/ \E k \in 1..Len(inflight) : \E p \in Players : \E in \in Inputs :
       PlayerAction(k, p, in.action, in.amount)
  \/ \E p \in Players : TurnTimerFires(p)
  \/ \E k \in 1..Len(inflight) : TimeoutFold(k)
  \/ \E p \in Players : ReconnectionTimerFires(p)
  \/ \E k \in 1..Len(inflight) : RemoveDisconnected(k)
  \/ NextHandTimerFires
  \/ \E k \in 1..Len(inflight) : \E seed \in 0..(budget.seeds - 1) : AutoStart(k, seed)

Spec == Init /\ [][Next]_vars

(***************************************************************************)
(* Timers fire and storage operations complete: an armed timer fires in    *)
(* the end, and a call the timers started, or the tail of a call, resumes  *)
(* in the end.  Nothing makes a player send a request.                     *)
(***************************************************************************)
TimerFires ==
  \/ \E p \in Players : TurnTimerFires(p)
  \/ \E p \in Players : ReconnectionTimerFires(p)
  \/ NextHandTimerFires

TimerCallResumes ==
  \/ \E k \in 1..Len(inflight) : TimeoutFold(k)
  \/ \E k \in 1..Len(inflight) : RemoveDisconnected(k)
  \/ \E k \in 1..Len(inflight) : \E seed \in 0..(budget.seeds - 1) : AutoStart(k, seed)

TailResumes ==
  \/ \E k \in 1..Len(inflight) : JoinRoomTail(k)
  \/ \E k \in 1..Len(inflight) : LeaveRoomTail(k)
  \/ \E k \in 1..Len(inflight) : StartTail(k)

SpecTimers ==
  /\ Init /\ [][Next]_vars
  /\ WF_vars(TimerFires) /\ WF_vars(TimerCallResumes) /\ WF_vars(TailResumes)

(***************************************************************************)
(* One hand played request after request by seats whose stacks differ, as  *)
(* earlier hands leave them: a short stack can be all-in while two other   *)
(* seats go on betting, and the hand then reaches processShowdown with     *)
(* unequal amounts put in the pot.                                         *)
(***************************************************************************)
Stacks == {0, 75, 200}

\* a room of NumPlayers seats holding the stacks `stack`
RECURSIVE Seated(_, _)
Seated(room, n) ==
  IF n = 0 THEN room ELSE addPlayerToRoom(Seated(room, n - 1), n).room

SeatedRoom(stack) ==
  Let(Seated(createInitialGameState(Creator, DefaultMaxPlayers, DefaultMinBet),
             NumPlayers), LAMBDA room :
    [room EXCEPT !.players = [i \in 1..Len(room.players) |->
                                [room.players[i] EXCEPT !.chips = stack[i]]]])

\* all-in, raises of 60 and of 20 over the bet to call, and the plain actions
ShowdownInputs == {Input("fold", 0), Input("check", 0), Input("call", 0),
                   Input("raise", 60), Input("raise", 20), Input("allin", 0)}

InitShowdown ==
  /\ \E stack \in [Players -> Stacks] : \E seed \in 0..(NumSeeds - 1) :
       stored = startNewHand(SeatedRoom(stack), seed).room
  /\ inflight = <<>>
  /\ playerTimeouts = {}
  /\ reconnectionTimeouts = {}
  /\ nextHandTimers = 0
  /\ sent = <<>>
  /\ budget = Budget(0, NumSeeds, 0, MaxWagers, 0)

NextShowdown ==
  \/ ReadRoom
  \/ \E k \in 1..Len(inflight) : \E p \in Players : \E in \in ShowdownInputs :
       PlayerAction(k, p, in.action, in.amount)

SpecShowdown == InitShowdown /\ [][NextShowdown]_vars

(***************************************************************************)
(* The evaluation of two hands at a showdown: two seats whose hole cards   *)
(* and whose board are drawn from a few cards, and the results that        *)
(* processShowdown computes for them, one seat after the other.            *)
(***************************************************************************)
Card(suit, rank) == [suit |-> suit, rank |-> rank]

\* the cards the hole cards are drawn from
HoleCards ==
  <<Card("hearts", "A"), Card("diamonds", "K"), Card("clubs", "2"),
    Card("diamonds", "2"), Card("spades", "A"), Card("hearts", "7"),
    Card("spades", "10"), Card("hearts", "8")>>

\* a flop, a turn and a river
Boards ==
  <<<<Card("hearts", "Q"), Card("hearts", "J"), Card("hearts", "9")>>,
    <<Card("hearts", "Q"), Card("hearts", "J"), Card("hearts", "9"),
      Card("diamonds", "9")>>,
    <<Card("hearts", "Q"), Card("hearts", "J"), Card("hearts", "9"),
      Card("diamonds", "9"), Card("clubs", "3")>>>>

\* two seats holding hand1 and hand2 in front of `board`, at the showdown
ShowdownRoom(hand1, hand2, board) ==
  Let(Seated(createInitialGameState(Creator, DefaultMaxPlayers, DefaultMinBet),
             2), LAMBDA room :
    [room EXCEPT !.players[1].hand = hand1, !.players[2].hand = hand2,
                 !.communityCards = board, !.status = "playing",
                 !.phase = "showdown"])

InitEvaluate ==
  /\ \E a, b, c, d \in 1..Len(HoleCards) : \E board \in 1..Len(Boards) :
       /\ a < b /\ c < d /\ {a, b} \cap {c, d} = {}
       /\ stored = ShowdownRoom(<<HoleCards[a], HoleCards[b]>>,
                                <<HoleCards[c], HoleCards[d]>>, Boards[board])
  /\ inflight = <<>>
  /\ playerTimeouts = {}
  /\ reconnectionTimeouts = {}
  /\ nextHandTimers = 0
  /\ sent = <<>>
  /\ budget = Budget(0, 0, 0, 0, 0)

\* one element of `results` in processShowdown: the hand of seat i evaluated
HandValueOf(room, i) ==
  Let(evaluateHand(room.players[i].hand, room.communityCards),
      LAMBDA handValue :
        [type |-> "hand_value", playerId |-> room.players[i].id,
         hand |-> room.players[i].hand, handValue |-> handValue,
         score |-> handValue.score])

\* activePlayers.map(...) evaluates the seats in seat order
EvaluateHand(i) ==
  /\ stored.phase = "showdown"
  /\ ~stored.players[i].folded
  /\ i = Len(sent) + 1
  /\ sent' = Append(sent, HandValueOf(stored, i))
  /\ UNCHANGED <<stored, inflight, playerTimeouts, reconnectionTimeouts,
                 nextHandTimers, budget>>

NextEvaluate == \E i \in 1..Len(stored.players) : EvaluateHand(i)

SpecEvaluate == InitEvaluate /\ [][NextEvaluate]_vars

\* hole cards and boards that make five-high and six-high straights
WheelHoleCards ==
  <<Card("hearts", "A"), Card("spades", "A"), Card("clubs", "2"),
    Card("diamonds", "2"), Card("diamonds", "6"), Card("spades", "6"),
    Card("diamonds", "K"), Card("hearts", "7")>>

WheelBoards ==
  <<<<Card("spades", "3"), Card("diamonds", "4"), Card("clubs", "5")>>,
    <<Card("spades", "3"), Card("diamonds", "4"), Card("clubs", "5"),
      Card("hearts", "9")>>,
    <<Card("spades", "3"), Card("diamonds", "4"), Card("clubs", "5"),
      Card("hearts", "9"), Card("spades", "K")>>,
    <<Card("spades", "3"), Card("diamonds", "4"), Card("clubs", "5"),
      Card("hearts", "5"), Card("hearts", "3")>>>>

InitWheel ==
  /\ \E a, b, c, d \in 1..Len(WheelHoleCards) : \E board \in 1..Len(WheelBoards) :
       /\ a < b /\ c < d /\ {a, b} \cap {c, d} = {}
       /\ stored = ShowdownRoom(<<WheelHoleCards[a], WheelHoleCards[b]>>,
                                <<WheelHoleCards[c], WheelHoleCards[d]>>,
                                WheelBoards[board])
  /\ inflight = <<>>
  /\ playerTimeouts = {}
  /\ reconnectionTimeouts = {}
  /\ nextHandTimers = 0
  /\ sent = <<>>
  /\ budget = Budget(0, 0, 0, 0, 0)

SpecWheel == InitWheel /\ [][NextEvaluate]_vars

(***************************************************************************)
(* PokerService.endGame: the creator ends the room, whatever the street of *)
(* the hand in progress.  PokerService stores its rooms under the same key *)
(* and with the same fields, the board being named `community`; with every *)
(* seat holding chips its startGame stores what startNewHand returns.      *)
(***************************************************************************)
NumDeals == 6

\* every seat has put in the bet to call of the round
CalledRound(room) ==
  [room EXCEPT
     !.players = [i \in 1..Len(room.players) |->
                    [room.players[i] EXCEPT
                       !.chips = @ - (room.currentBet - room.players[i].bet),
                       !.bet = room.currentBet]],
     !.pot = @ + SumSeq([i \in 1..Len(room.players) |->
                           room.currentBet - room.players[i].bet]),
     !.playersActedThisRound =
        [i \in 1..Len(room.players) |-> room.players[i].id]]

\* the first seat that is neither folded nor all-in, Null when there is none
FirstActive(room) ==
  Let(SelectSeq(room.players, LAMBDA p : ~p.folded /\ ~p.allIn),
      LAMBDA activePlayers :
        IF activePlayers = <<>> THEN Null ELSE activePlayers[1].id)

\* nextPhase before the river: a card burned, the street dealt, the betting
\* round reset, the turn with the first active seat
nextPhase(room) ==
  Let(IF room.phase = "preflop" THEN [dealFlop(room) EXCEPT !.phase = "flop"]
      ELSE IF room.phase = "flop" THEN [dealTurn(room) EXCEPT !.phase = "turn"]
      ELSE IF room.phase = "turn" THEN [dealRiver(room) EXCEPT !.phase = "river"]
      ELSE room, LAMBDA dealt :
    Let([dealt EXCEPT !.currentBet = 0, !.lastRaiser = Null,
                      !.playersActedThisRound = <<>>,
                      !.players = [i \in 1..Len(dealt.players) |->
                                     [dealt.players[i] EXCEPT !.bet = 0]]],
        LAMBDA reset :
          [reset EXCEPT !.currentTurn = IF FirstActive(reset) = Null THEN @
                                        ELSE FirstActive(reset)]))

\* the room `streets` streets after the start of the hand, every seat having
\* called before the flop and checked since
NextStreet(room) == nextPhase(CalledRound(room))

RoomOnStreet(room, streets) ==
  IF streets = 0 THEN room
  ELSE IF streets = 1 THEN NextStreet(room)
  ELSE IF streets = 2 THEN NextStreet(NextStreet(room))
  ELSE NextStreet(NextStreet(NextStreet(room)))

\* playerAction "fold" of the seat on turn: the seat is folded and recorded as
\* having acted, moveToNextPlayer gives the turn to the first active seat
FoldOnTurn(room) ==
  Let(PlayerIndex(room, room.currentTurn), LAMBDA i :
    Let([room EXCEPT !.players[i].folded = TRUE,
                     !.playersActedThisRound = Append(@, room.currentTurn)],
        LAMBDA folded : [folded EXCEPT !.currentTurn = FirstActive(folded)]))

InitEndGame ==
  /\ \E seed \in 0..(NumDeals - 1) : \E streets \in 0..3 :
       \E fold \in BOOLEAN :
         \E hand \in {startNewHand(
                        Seated(createInitialGameState(Creator, DefaultMaxPlayers,
                                                      DefaultMinBet), NumPlayers),
                        seed).room} :
           \E room \in {RoomOnStreet(hand, streets)} :
             stored = IF fold THEN FoldOnTurn(room) ELSE room
  /\ inflight = <<>>
  /\ playerTimeouts = {}
  /\ reconnectionTimeouts = {}
  /\ nextHandTimers = 0
  /\ sent = <<>>
  /\ budget = Budget(0, 0, 0, 0, 0)

\* resetGameState
resetGameState(room) ==
  Let([room EXCEPT
         !.status = "waiting", !.phase = "waiting", !.pot = 0,
         !.communityCards = <<>>, !.currentBet = 0, !.currentTurn = Null,
         !.lastRaiser = Null, !.playersActedThisRound = <<>>,
         !.dealerIndex =
            IF Len(SelectSeq(room.players, LAMBDA p : p.chips > 0)) >= 2
            THEN (@ + 1) % Len(room.players) ELSE @,
         !.players = [i \in 1..Len(room.players) |->
                        [room.players[i] EXCEPT !.hand = <<>>, !.bet = 0,
                           !.folded = FALSE, !.allIn = FALSE]]],
      LAMBDA reset :
        [reset EXCEPT !.players = SelectSeq(@, LAMBDA p : p.chips > 0)])

\* showdown of PokerService: the pot paid as processShowdown pays it, on the
\* board as it is; the broadcast carries the room before resetGameState
showdown(room) ==
  Let(processShowdown(room), LAMBDA paid :
    [room |-> resetGameState(paid.room),
     sent |-> <<[type |-> "showdown", room |-> paid.room,
                 hands |-> paid.hands, winners |-> paid.winners]>>])

\* endGame up to its broadcast
endGame(room) ==
  Let(IF room.status = "playing" THEN showdown(room)
      ELSE [room |-> room, sent |-> <<>>], LAMBDA shown :
    Let([shown.room EXCEPT !.status = "finished"], LAMBDA finished :
      [room |-> finished,
       sent |-> shown.sent \o <<[type |-> "game_ended", room |-> finished,
                                 hands |-> {}, winners |-> <<>>]>>]))

\* endGame after getRoom: only the creator may end the room
EndGame(k, playerId) ==
  /\ Suspended(k, "request")
  /\ IF inflight[k].room.creator # playerId
     THEN UNCHANGED <<stored, sent, playerTimeouts>>
     ELSE /\ stored' = endGame(inflight[k].room).room
          /\ sent' = endGame(inflight[k].room).sent
          /\ playerTimeouts' = {}
  /\ inflight' = Drop(k)
  /\ UNCHANGED <<reconnectionTimeouts, nextHandTimers, budget>>

NextEndGame ==
  \/ ReadRoom
  \/ \E k \in 1..Len(inflight) : \E p \in Players : EndGame(k, p)

SpecEndGame == InitEndGame /\ [][NextEndGame]_vars

(***************************************************************************)
(* PokerService.playerAction: one hand played through PokerService, request *)
(* after request and by the turn timers.  Its switch, its acted set and its *)
(* isRoundComplete are those of the engine; it also rejects what an all-in  *)
(* seat asks, except a fold.                                                *)
(***************************************************************************)
\* the checks made before clearPlayerTimeout: the error thrown, "" if none
ServiceError(room, playerId, action) ==
  Let(PlayerIndex(room, playerId), LAMBDA i :
    IF i = 0 THEN "Player not found"
    ELSE IF room.currentTurn # playerId THEN "Not your turn"
    ELSE IF room.players[i].folded THEN "Player has folded"
    ELSE IF room.players[i].allIn /\ action # "fold"
      THEN "Player is already all-in"
    ELSE "")

\* PokerService.moveToNextPlayer
serviceMoveToNextPlayer(room) ==
  Let(SelectSeq(room.players, LAMBDA p : ~p.folded /\ ~p.allIn),
      LAMBDA activePlayers :
    IF Len(activePlayers) <= 1
    THEN [room EXCEPT !.currentTurn =
            IF Len(activePlayers) = 1 THEN activePlayers[1].id ELSE Null]
    ELSE Let(FirstIndex(activePlayers, LAMBDA p : p.id = room.currentTurn),
             LAMBDA currentIndex :
           [room EXCEPT !.currentTurn =
              IF currentIndex = 0 THEN activePlayers[1].id
              ELSE activePlayers[(currentIndex % Len(activePlayers)) + 1].id]))

\* dealRemainingCommunityCards: a burn before each missing card
RECURSIVE DealMissing(_, _)
DealMissing(room, neededCards) ==
  IF neededCards = 0 THEN room
  ELSE DealMissing(
         IF Len(room.deck) >= 2 THEN BurnAndDeal(room, 2, 1)
         ELSE IF Len(room.deck) = 1
           THEN [room EXCEPT !.communityCards = Append(@, room.deck[1]),
                             !.deck = <<>>]
         ELSE room, neededCards - 1)

dealRemainingCommunityCards(room) ==
  [DealMissing(room, 5 - Len(room.communityCards)) EXCEPT !.phase = "showdown"]

\* the player_action broadcast of PokerService, which carries the room as it is
ActionMessage(room) ==
  [type |-> "player_action", room |-> room, hands |-> {}, winners |-> <<>>]

\* what playerAction does with the room once the action is applied to it:
\* `early` when it returns after a showdown without writing the room,
\* `reread` when the round is complete and nextPhase reads the room again
AfterServiceAction(room) ==
  Let(SelectSeq(room.players, LAMBDA p : ~p.folded), LAMBDA activePlayers :
    IF Len(activePlayers) = 1
    THEN [step |-> "early", room |-> room, sent |-> showdown(room).sent]
    ELSE IF Len(SelectSeq(activePlayers, LAMBDA p : ~p.allIn)) <= 1
    THEN [step |-> "early", room |-> room,
          sent |-> showdown(dealRemainingCommunityCards(room)).sent]
    ELSE Let(serviceMoveToNextPlayer(room), LAMBDA moved :
           IF isRoundComplete(moved)
           THEN [step |-> "reread", room |-> moved, sent |-> <<>>]
           ELSE [step |-> "write", room |-> moved,
                 sent |-> <<ActionMessage(moved)>>]))

\* playerAction after getRoom, up to its return, its write or the getRoom of
\* nextPhase.  The call suspended in nextPhase has two room objects: `held`,
\* the one playerAction applied the action to, and `room`, the one the
\* getRoom of nextPhase returns
ServiceApply(k, playerId, action, amount) ==
  Let(inflight[k].room, LAMBDA room :
    IF ServiceError(room, playerId, action) # "" THEN
      /\ inflight' = Drop(k)
      /\ UNCHANGED <<stored, playerTimeouts, sent, budget>>
    ELSE Let(MarkActed(room, playerId,
                       ApplyActionCase(room, PlayerIndex(room, playerId),
                                       action, amount)), LAMBDA res :
      IF ~res.ok THEN
        /\ playerTimeouts' = playerTimeouts \ {playerId}
        /\ inflight' = Drop(k)
        /\ UNCHANGED <<stored, sent, budget>>
      ELSE Let(AfterServiceAction(res.room), LAMBDA after :
        /\ budget.wagers >= (IF action \in Wagers THEN 1 ELSE 0)
        /\ budget' = [budget EXCEPT
                        !.wagers = @ - (IF action \in Wagers THEN 1 ELSE 0)]
        /\ IF after.step = "early" THEN
             /\ playerTimeouts' = playerTimeouts \ {playerId}
             /\ sent' = after.sent
             /\ inflight' = Drop(k)
             /\ UNCHANGED stored
           ELSE IF after.step = "reread" THEN
             /\ playerTimeouts' = playerTimeouts \ {playerId}
             /\ inflight' = Resume(k, [kind |-> "nextPhase", player |-> playerId,
                                       room |-> stored, held |-> after.room])
             /\ UNCHANGED <<stored, sent>>
           ELSE
             /\ playerTimeouts' = (playerTimeouts \ {playerId})
                                     \cup {after.room.currentTurn}
             /\ stored' = after.room
             /\ sent' = after.sent
             /\ inflight' = Drop(k))))

\* a request resumes as playerAction
ServiceAction(k, playerId, action, amount) ==
  /\ Suspended(k, "request")
  /\ ServiceApply(k, playerId, action, amount)
  /\ UNCHANGED <<reconnectionTimeouts, nextHandTimers>>

\* the callback of setPlayerTimeout resumes: playerAction(roomId, playerId, "fold")
ServiceTimeoutFold(k) ==
  /\ Suspended(k, "timeout")
  /\ ServiceApply(k, inflight[k].player, "fold", 0)
  /\ UNCHANGED <<reconnectionTimeouts, nextHandTimers>>

\* nextPhase after its getRoom, and the end of the playerAction that called
\* it: on the river the showdown and the write of playerAction; before, the
\* street dealt, the timer of the first active seat, the write and the
\* phase_change of nextPhase, the write and the player_action of playerAction
ServiceNextPhase(k) ==
  /\ Suspended(k, "nextPhase")
  /\ Let(inflight[k].room, LAMBDA room :
       IF room.phase = "river" THEN
         Let(showdown([room EXCEPT !.phase = "showdown"]), LAMBDA shown :
           /\ stored' = shown.room
           /\ sent' = shown.sent \o <<ActionMessage(shown.room)>>
           /\ UNCHANGED playerTimeouts)
       ELSE
         Let(nextPhase(room), LAMBDA next :
           /\ stored' = next
           /\ sent' = <<[type |-> "phase_change", room |-> next, hands |-> {},
                         winners |-> <<>>], ActionMessage(next)>>
           /\ playerTimeouts' = IF FirstActive(next) = Null THEN playerTimeouts
                                ELSE playerTimeouts \cup {next.currentTurn}))
  /\ inflight' = Drop(k)
  /\ UNCHANGED <<reconnectionTimeouts, nextHandTimers, budget>>

\* the stacks of the seats, in seat order, when PokerService.startGame deals
\* the hand: equal stacks, and a short stack in the first or in the last seat
ServiceStacks == {<<200, 200, 200>>, <<75, 200, 200>>, <<200, 200, 75>>}

\* a raise of 60 over the bet to call, all-in, and the plain actions
ServiceInputs == {Input("fold", 0), Input("check", 0), Input("call", 0),
                  Input("raise", 60), Input("allin", 0)}

\* the room startGame stores, the timer of the first seat to act armed
InitService ==
  /\ \E stack \in ServiceStacks : \E seed \in 0..(NumSeeds - 1) :
       stored = startNewHand(SeatedRoom(stack), seed).room
  /\ inflight = <<>>
  /\ playerTimeouts = {stored.currentTurn}
  /\ reconnectionTimeouts = {}
  /\ nextHandTimers = 0
  /\ sent = <<>>
  /\ budget = Budget(0, NumSeeds, 0, MaxWagers, 0)

NextService ==
  \/ ReadRoom
  \/ \E k \in 1..Len(inflight) : \E p \in Players : \E in \in ServiceInputs :
       ServiceAction(k, p, in.action, in.amount)
  \/ \E k \in 1..Len(inflight) : ServiceNextPhase(k)
  \/ \E p \in Players : TurnTimerFires(p)
  \/ \E k \in 1..Len(inflight) : ServiceTimeoutFold(k)

SpecService == InitService /\ [][NextService]_vars

(***************************************************************************)
(* PokerWebSocketHandler.handleSubscribe: a player subscribes to the room  *)
(* while requests go on.  The player is put in roomSubscriptions before    *)
(* handleGetRoomState awaits getRoom; a suspended call of kind "subscribe" *)
(* is a player who is in roomSubscriptions and has not been sent its       *)
(* room_state.  broadcastToRoom sends a message to every player of         *)
(* roomSubscriptions, so to that player too.                               *)
(***************************************************************************)
\* handleSubscribe up to the await of getRoom in handleGetRoomState
Subscribe(playerId) ==
  /\ \A k \in 1..Len(inflight) :
       ~(inflight[k].kind = "subscribe" /\ inflight[k].player = playerId)
  /\ Read("subscribe", playerId)
  /\ UNCHANGED <<stored, playerTimeouts, reconnectionTimeouts, nextHandTimers,
                 sent>>

\* handleGetRoomState after getRoom: the room it read, as the player may see
\* it, is sent to the player alone
SendRoomState(k) ==
  /\ Suspended(k, "subscribe")
  /\ sent' = <<[type |-> "room_state",
                room |-> createPlayerSpecificRoomView(inflight[k].room,
                                                      inflight[k].player),
                hands |-> {}, to |-> inflight[k].player]>>
  /\ inflight' = Drop(k)
  /\ UNCHANGED <<stored, playerTimeouts, reconnectionTimeouts, nextHandTimers,
                 budget>>

NextSubscribe ==
  \/ ReadRoom
  \/ \E p \in Players : Subscribe(p)
  \/ \E k \in 1..Len(inflight) : SendRoomState(k)
  \/ \E k \in 1..Len(inflight) : \E p \in JoinInputs : JoinRoom(k, p)
  \/ \E k \in 1..Len(inflight) : JoinRoomTail(k)
  \/ \E k \in 1..Len(inflight) : \E p \in Players :
       \E seed \in 0..(budget.seeds - 1) : StartGame(k, p, seed)
  \/ \E k \in 1..Len(inflight) : StartTail(k)

SpecSubscribe == Init /\ [][NextSubscribe]_vars

(***************************************************************************)
(* Properties                                                              *)
(***************************************************************************)
\* the call k is the one that takes this step
Acts(k) ==
  /\ k \in 1..Len(inflight)
  /\ \/ inflight' = Drop(k)
     \/ Len(inflight') = Len(inflight) /\ inflight'[k] # inflight[k]

\* the call k works on the room as it is stored now
Fresh(k) == k \in 1..Len(inflight) /\ inflight[k].room = stored

BettingPhases == {"preflop", "flop", "turn", "river"}
InHand(room) == room.status = "playing" /\ room.phase \in BettingPhases

SumChips(room) ==
  SumSeq([i \in 1..Len(room.players) |-> room.players[i].chips])

\* what the seat with index i has put in the pot since the hand started
Committed(room, i) ==
  room.chipsAtHandStart[room.players[i].id] - room.players[i].chips

SumCommitted(room) ==
  SumSeq([i \in 1..Len(room.players) |-> Committed(room, i)])

\* C1 (as claimed): no step writes a room computed from a snapshot that is no
\* longer the stored one, so no write overwrites the effect of an operation
\* that was applied after the writer had read the room.
C1_NoLostUpdate ==
  [][\A k \in 1..Len(inflight) :
       (Acts(k) /\ stored' # stored) => inflight[k].room = stored]_vars

SumAtHandStart(room) ==
  SumSeq([i \in 1..NumPlayers |-> room.chipsAtHandStart[i]])

SumStartOfSeated(room) ==
  SumSeq([i \in 1..Len(room.players) |->
            room.chipsAtHandStart[room.players[i].id]])

\* the step of call k, which has read the room as it is stored, resolves the
\* hand: a hand is in progress before it and none after it
Resolves(k) ==
  Acts(k) /\ Fresh(k) /\ InHand(stored) /\ ~InHand(stored')

NotFolded(room) ==
  SelectSeq(room.players, LAMBDA q : ~q.folded)

\* the seat of playerId is on turn in a hand and has not folded
OwesAction(room, playerId) ==
  /\ InHand(room)
  /\ room.currentTurn = playerId
  /\ InRoom(room, playerId)
  /\ ~room.players[PlayerIndex(room, playerId)].folded

\* C4 (as claimed): when the seat on turn folds and one seat is left that has
\* not folded, the room stored by that step has the pot in that seat's stack
\* and no hand in progress.
C4_LastSeatWinsAtOnce ==
  [][\A k \in 1..Len(inflight) : \A p \in Players :
       (/\ PlayerAction(k, p, "fold", 0)
        /\ Fresh(k)
        /\ OwesAction(stored, p)
        /\ Len(NotFolded(stored)) = 2)
       => \E i \in 1..Len(stored.players) :
            /\ stored.players[i].id # p
            /\ ~stored.players[i].folded
            /\ i <= Len(stored'.players)
            /\ stored'.players[i].chips = stored.players[i].chips + stored.pot
            /\ ~InHand(stored')]_vars

\* what the seat with index i can win from the seats of the room: from each
\* seat no more than the seat itself has put in
Winnable(room, i) ==
  SumSeq([s \in 1..Len(room.players) |->
            Min(Committed(room, i), Committed(room, s))])

\* C5 (as claimed): at a showdown reached by an action that adds nothing to
\* the pot, no seat's stack grows by more than what that seat can win: from
\* each seat at most what the seat itself has put in during the hand.
C5_SidePots ==
  [][\A k \in 1..Len(inflight) :
       (Resolves(k) /\ stored'.pot = stored.pot)
       => \A i \in 1..Len(stored.players) :
            stored'.players[i].chips - stored.players[i].chips
              <= Winnable(stored, i)]_vars

\* C6 (as claimed): when the turn timer of the seat on turn takes effect, the
\* room then stored has that seat folded and is no longer waiting on it.
C6_TimeoutFolds ==
  [][\A k \in 1..Len(inflight) :
       (TimeoutFold(k) /\ Fresh(k) /\ OwesAction(stored, inflight[k].player))
       => /\ stored'.players[PlayerIndex(stored', inflight[k].player)].folded
          /\ ~OwesAction(stored', inflight[k].player)]_vars

\* the fields C7 and C8 name: seats with their chips, bets and flags, pot,
\* currentBet, currentTurn, the acted set and the phase
GameFields(room) ==
  <<room.players, room.pot, room.currentBet, room.currentTurn,
    room.playersActedThisRound, room.phase>>

\* C7 (as claimed): a turn timer that takes effect when its seat no longer
\* owes action in the room stored changes nothing in that room.
C7_StaleTimeoutIsNoOp ==
  [][\A k \in 1..Len(inflight) :
       (TimeoutFold(k) /\ ~OwesAction(stored, inflight[k].player))
       => GameFields(stored') = GameFields(stored)]_vars

\* the precondition violations C8 lists, for the action `in` of playerId
Violates(room, playerId, in) ==
  LET i == PlayerIndex(room, playerId)
  IN \/ i = 0
     \/ room.currentTurn # playerId
     \/ room.players[i].folded
     \/ in.action = "check" /\ room.currentBet > room.players[i].bet
     \/ in.action = "bet" /\ in.amount < room.minBet
     \/ in.action = "bet" /\ in.amount > room.players[i].chips
     \/ in.action = "raise"
          /\ room.currentBet + in.amount - room.players[i].bet
               > room.players[i].chips
     \/ in.action \notin {"fold", "check", "call", "bet", "raise", "allin"}

\* C8: no step that changes the stored room is a processPlayerAction whose
\* action violates a precondition on the room it read: a rejected action
\* leaves the stored room as it was.
C8_RejectedChangesNothing ==
  [][\A k \in 1..Len(inflight) : \A p \in Players : \A in \in Inputs :
       (/\ stored' # stored
        /\ Suspended(k, "request")
        /\ Violates(inflight[k].room, p, in))
       => ~PlayerAction(k, p, in.action, in.amount)]_vars

\* after a rejected request of the seat on turn, which owes a call: its turn
\* timer is cleared, the room still waits on it
C8_Witness ==
  /\ inflight = <<>>
  /\ OwesAction(stored, stored.currentTurn)
  /\ Len(NotFolded(stored)) = 3
  /\ \A i \in 1..Len(stored.players) : stored.players[i].connected
  /\ stored.currentBet > stored.players[PlayerIndex(stored, stored.currentTurn)].bet
  /\ stored.currentTurn \notin playerTimeouts

\* what the claim requires of an accepted startHand
StartAllowed(room, playerId) ==
  /\ room.creator = playerId
  /\ ~InHand(room)
  /\ Len(SelectSeq(room.players, LAMBDA q : q.chips > 0)) >= 2

\* C9 (as claimed): a startGame by another player than the creator, during a
\* hand, or with fewer than two seats with chips leaves the stored room as
\* it was.
C9_StartOnlyBetweenHands ==
  [][\A k \in 1..Len(inflight) : \A p \in Players : \A seed \in 0..(NumSeeds - 1) :
       (StartGame(k, p, seed) /\ Fresh(k) /\ ~StartAllowed(stored, p))
       => stored' = stored]_vars

\* the cards of the seat with index i are hidden in `view`
HandHidden(view, i) ==
  \A c \in 1..Len(view.players[i].hand) : view.players[i].hand[c] = Hidden

\* `view`, made for playerId, shows the cards of another seat only at the
\* showdown and only if that seat has not folded
ViewHidesCards(view, playerId) ==
  \A i \in 1..Len(view.players) :
    (view.players[i].id # playerId
     /\ ~(view.phase = "showdown" /\ ~view.players[i].folded))
    => HandHidden(view, i)

\* C10 (as claimed): the room state returned to a player and the rooms of
\* the messages broadcast show no other seat's cards, except those of seats
\* that have not folded when the phase is showdown.
C10_ViewsHideCards ==
  \A p \in Players :
    /\ ViewHidesCards(createPlayerSpecificRoomView(stored, p), p)
    /\ \A m \in 1..Len(sent) : ViewHidesCards(sent[m].room, p)

\* C11 (as claimed): neither the room state returned to a player nor the room
\* of a message broadcast carries the cards left in the deck.
C11_DeckNeverSent ==
  /\ \A p \in Players : createPlayerSpecificRoomView(stored, p).deck = <<>>
  /\ \A m \in 1..Len(sent) : sent[m].room.deck = <<>>

\* `view`, delivered to playerId, shows the two cards of playerId's own seat
OwnCardsShown(view, playerId) ==
  (InHand(view) /\ InRoom(view, playerId))
  => Let(view.players[PlayerIndex(view, playerId)].hand, LAMBDA hand :
       Len(hand) = 2 /\ \A c \in 1..Len(hand) : hand[c] # Hidden)

\* C12 (as claimed): during a hand, the room state returned to a seated
\* player and the room of every message broadcast, which every subscriber of
\* the room receives, show that player's own two cards.
C12_OwnCardsShown ==
  \A p \in Players :
    /\ OwnCardsShown(createPlayerSpecificRoomView(stored, p), p)
    /\ \A m \in 1..Len(sent) : OwnCardsShown(sent[m].room, p)

\* the seat of playerId is disconnected and its reconnection timer is running
AwaitsReconnect(room, playerId) ==
  /\ InRoom(room, playerId)
  /\ ~room.players[PlayerIndex(room, playerId)].connected
  /\ playerId \in reconnectionTimeouts

\* C13 (as claimed): a joinRoom of a seat that was disconnected during a hand
\* and whose reconnection timer is still running stores the seat as connected,
\* with the chips and the cards it had.
C13_ReconnectKeepsSeat ==
  [][\A k \in 1..Len(inflight) : \A p \in Players :
       (/\ InHand(stored)
        /\ AwaitsReconnect(stored, p)
        /\ Fresh(k)
        /\ JoinRoom(k, p))
       => /\ InRoom(stored', p)
          /\ stored'.players[PlayerIndex(stored', p)] =
               [stored.players[PlayerIndex(stored, p)] EXCEPT !.connected = TRUE]]_vars

\* C14 (as claimed): when leaveRoom of the seat that owes action completes,
\* the turn timer of that seat, running before, is still running.
C14_DisconnectKeepsDeadline ==
  [][\A k \in 1..Len(inflight) :
       (/\ Suspended(k, "leaveTail")
        /\ OwesAction(stored, inflight[k].player)
        /\ inflight[k].player \in playerTimeouts
        /\ LeaveRoomTail(k))
       => inflight[k].player \in playerTimeouts']_vars

\* C15 (as claimed): when the reconnection timer of a seat takes effect during
\* a hand, the seat is removed, and if one seat is then left that has not
\* folded, the room stored has the pot in that seat's stack and no hand in
\* progress.
C15_RemovalEndsHand ==
  [][\A k \in 1..Len(inflight) :
       (/\ Suspended(k, "reconnect")
        /\ Fresh(k)
        /\ InHand(stored)
        /\ InRoom(stored, inflight[k].player)
        /\ RemoveDisconnected(k))
       => /\ ~InRoom(stored', inflight[k].player)
          /\ Len(NotFolded(stored')) = 1
               => /\ ~InHand(stored')
                  /\ \E i \in 1..Len(stored.players) :
                       /\ stored.players[i].id = NotFolded(stored')[1].id
                       /\ NotFolded(stored')[1].chips =
                            stored.players[i].chips + stored.pot]_vars

\* no two seats of the room belong to the same player
OneSeatEach(room) ==
  \A i, j \in 1..Len(room.players) :
    room.players[i].id = room.players[j].id => i = j

\* the ids and the stacks of the seats, in seat order
SeatList(room) ==
  [i \in 1..Len(room.players) |->
     <<room.players[i].id, room.players[i].chips>>]

\* C16 (as claimed): a joinRoom of a player who holds a seat is not rejected,
\* whatever the status of the room, and leaves the seats and their stacks as
\* they were; no player holds two seats.
C16_RejoinIsIdempotent ==
  [][\A k \in 1..Len(inflight) : \A p \in Players :
       (/\ Suspended(k, "request")
        /\ Fresh(k)
        /\ InRoom(stored, p)
        /\ JoinRoom(k, p))
       => /\ Len(inflight') = Len(inflight)
          /\ inflight'[k].kind = "joinTail"
          /\ SeatList(stored') = SeatList(stored)
          /\ OneSeatEach(stored')]_vars

(***************************************************************************)
(* The ranking of Texas Hold'em: the best five cards out of the hole cards *)
(* and the board, compared by category and then by the ranks that make the *)
(* category, then the kickers.                                             *)
(***************************************************************************)
RankValues(five) == [i \in 1..Len(five) |-> getRankValue(five[i].rank)]

TimesOf(values, v) == Cardinality({i \in 1..Len(values) : values[i] = v})

ValueSet(values) == {values[i] : i \in 1..Len(values)}

IsWheel(values) == ValueSet(values) = {14, 5, 4, 3, 2}

IsStraightOfFive(values) ==
  /\ Cardinality(ValueSet(values)) = 5
  /\ \/ IsWheel(values)
     \/ \E top \in ValueSet(values) : ValueSet(values) = (top - 4)..top

IsFlushOfFive(five) == \A i \in 1..Len(five) : five[i].suit = five[1].suit

\* 8 straight flush (a royal flush is its highest), 7 four of a kind, 6 full
\* house, 5 flush, 4 straight, 3 three of a kind, 2 two pair, 1 pair, 0 high card
CategoryOf(five, values) ==
  Let({TimesOf(values, v) : v \in ValueSet(values)}, LAMBDA times :
    IF IsStraightOfFive(values) /\ IsFlushOfFive(five) THEN 8
    ELSE IF 4 \in times THEN 7
    ELSE IF times = {3, 2} THEN 6
    ELSE IF IsFlushOfFive(five) THEN 5
    ELSE IF IsStraightOfFive(values) THEN 4
    ELSE IF 3 \in times THEN 3
    ELSE IF Cardinality(ValueSet(values)) = 3 THEN 2
    ELSE IF Cardinality(ValueSet(values)) = 4 THEN 1
    ELSE 0)

\* the distinct ranks of the five cards, those held most often first and the
\* higher before the lower among those held equally often; the ace of a
\* five-high straight counts as one
TieBreakers(values) ==
  IF IsStraightOfFive(values) /\ IsWheel(values) THEN <<5, 4, 3, 2, 1>>
  ELSE Let(SetToDescSeq({TimesOf(values, v) * 15 + v : v \in ValueSet(values)}),
           LAMBDA weights : [k \in 1..Len(weights) |-> weights[k] % 15])

RECURSIVE InBase15(_)
InBase15(digits) ==
  IF digits = <<>> THEN 0
  ELSE InBase15(SubSeq(digits, 1, Len(digits) - 1)) * 15 + digits[Len(digits)]

\* five cards rank above five others exactly when their strength is greater
StrengthOfFive(five) ==
  Let(RankValues(five), LAMBDA values :
    CategoryOf(five, values) * (15 * 15 * 15 * 15 * 15)
    + InBase15(TieBreakers(values)))

FivesOf(cards) ==
  {Let(SetToDescSeq(S), LAMBDA idx : [k \in 1..5 |-> cards[idx[k]]]) :
     S \in {T \in SUBSET (1..Len(cards)) : Cardinality(T) = 5}}

HoldemStrength(cards) ==
  Let({StrengthOfFive(five) : five \in FivesOf(cards)}, LAMBDA strengths :
    CHOOSE best \in strengths : \A other \in strengths : other <= best)

\* C17 (as claimed): of two complete hands evaluated at a showdown, the first
\* scores above the second exactly when it beats it under the ranking of
\* Texas Hold'em, kickers included, and they score the same exactly when they
\* tie.
C17_ScoreOrdersHands ==
  Len(sent) = 2 =>
    Let(<<HoldemStrength(sent[1].hand \o stored.communityCards),
          HoldemStrength(sent[2].hand \o stored.communityCards)>>,
        LAMBDA strength :
          /\ (sent[1].score > sent[2].score) <=> (strength[1] > strength[2])
          /\ (sent[1].score = sent[2].score) <=> (strength[1] = strength[2]))

\* the seats after seat `from` in seat order, wrapping around to it
SeatsAfter(room, from) ==
  [d \in 1..Len(room.players) |->
     room.players[((from - 1 + d) % Len(room.players)) + 1]]

\* the first seat after that of playerId, in seat order and wrapping around,
\* that is neither folded nor all-in; Null when there is none
NextToAct(room, playerId) ==
  Let(SelectSeq(SeatsAfter(room, PlayerIndex(room, playerId)),
                LAMBDA seat : ~seat.folded /\ ~seat.allIn),
      LAMBDA waiting : IF waiting = <<>> THEN Null ELSE waiting[1].id)

\* the action is accepted on `room` and neither ends the hand nor completes
\* the betting round
ContinuesRound(room, playerId, in) ==
  Let(processPlayerAction(room, playerId, in.action, in.amount), LAMBDA res :
    res.ok /\ checkGameState(res.room) = "continue")

\* C18 (as claimed): after an accepted action that neither ends the hand nor
\* completes the betting round, the turn is with the next seat in seat order
\* after the seat that acted, wrapping around, that is neither folded nor
\* all-in, also when the seat that acted has just folded or gone all-in.
C18_TurnPassesInSeatOrder ==
  [][\A k \in 1..Len(inflight) : \A p \in Players : \A in \in Inputs :
       (/\ stored' # stored
        /\ Suspended(k, "request")
        /\ Fresh(k)
        /\ ContinuesRound(stored, p, in)
        /\ PlayerAction(k, p, in.action, in.amount))
       => stored'.currentTurn = NextToAct(stored', p)]_vars

\* C19 (as claimed): the turn is with nobody, or with a seat of the room that
\* is neither folded nor all-in.
C19_TurnIsWithLiveSeat ==
  \/ stored.currentTurn = Null
  \/ /\ InRoom(stored, stored.currentTurn)
     /\ ~stored.players[PlayerIndex(stored, stored.currentTurn)].folded
     /\ ~stored.players[PlayerIndex(stored, stored.currentTurn)].allIn

\* the seats that can still bet: neither folded nor all-in
Playing(room) == SelectSeq(room.players, LAMBDA seat : ~seat.folded /\ ~seat.allIn)

\* every seat that can still bet has acted in the round and has put in the
\* current bet
RoundSettled(room) ==
  \A i \in 1..Len(Playing(room)) :
    /\ Includes(room.playersActedThisRound, Playing(room)[i].id)
    /\ Playing(room)[i].bet = room.currentBet

\* the room that call k holds once the action is applied to it, before the
\* round is looked at
RoomAfterAction(k, playerId, in) ==
  processPlayerAction(inflight[k].room, playerId, in.action, in.amount).room

\* C20: a processPlayerAction, requested or made by the turn timer, that moves
\* the room it read out of a betting round does so, while more than one seat
\* that has not folded is not all-in, only when every such seat has acted in
\* the round and has put in the current bet; so the preflop round does not end on the calls of the others
\* before the big blind has acted.
C20_RoundEndsWhenSettled ==
  [][/\ \A k \in 1..Len(inflight) : \A p \in Players : \A in \in Inputs :
       (/\ stored' # stored
        /\ Suspended(k, "request")
        /\ inflight[k].room.phase \in BettingPhases
        /\ stored'.phase # inflight[k].room.phase
        /\ PlayerAction(k, p, in.action, in.amount))
       => (Len(Playing(RoomAfterAction(k, p, in))) > 1
             => RoundSettled(RoomAfterAction(k, p, in)))
     /\ \A k \in 1..Len(inflight) :
       (/\ stored' # stored
        /\ Suspended(k, "timeout")
        /\ inflight[k].room.phase \in BettingPhases
        /\ stored'.phase # inflight[k].room.phase
        /\ TimeoutFold(k))
       => Let(RoomAfterAction(k, inflight[k].player, Input("fold", 0)),
              LAMBDA room : Len(Playing(room)) > 1 => RoundSettled(room))]_vars

\* the flop of a hand of three seats that have each put in the big blind and
\* no more: the big blind has acted after the calls of the other two
C20_Witness ==
  /\ InHand(stored)
  /\ stored.phase = "flop"
  /\ Len(Playing(stored)) = 3
  /\ stored.pot = 3 * stored.minBet
  /\ Len(stored.communityCards) = 3

\* a room of two seats, neither folded, both all-in
BothAllIn(room) ==
  /\ Len(room.players) = 2
  /\ \A i \in 1..Len(room.players) :
       ~room.players[i].folded /\ room.players[i].allIn

\* the board is run out and the hand is over: five community cards, a card
\* burned before the flop, before the turn and before the river, the pot of
\* `before` in the stacks
RunOut(before, after) ==
  /\ Len(after.communityCards) = 5
  /\ Len(after.burned) = 3
  /\ ~InHand(after)
  /\ after.pot = 0
  /\ SumChips(after) = SumChips(before) + before.pot

\* C21 (as claimed): in a two-seat hand before the flop, the all-in of the
\* seat on turn is stored; when it leaves both seats all-in the room stored
\* by that step has the board run out, the showdown made and the pot paid,
\* and otherwise the hand goes on with that seat all-in.
C21_AllInRunsOutTheBoard ==
  [][\A k \in 1..Len(inflight) : \A p \in Players :
       (/\ Suspended(k, "request")
        /\ Fresh(k)
        /\ stored.phase = "preflop"
        /\ Len(stored.players) = 2
        /\ OwesAction(stored, p)
        /\ PlayerAction(k, p, "allin", 0))
       => IF BothAllIn(processPlayerAction(stored, p, "allin", 0).room)
          THEN RunOut(stored, stored')
          ELSE /\ InHand(stored')
               /\ stored'.players[PlayerIndex(stored', p)].allIn]_vars

\* what the all-in of playerId adds to the bet to call
AllInIncrease(room, playerId) ==
  Let(room.players[PlayerIndex(room, playerId)], LAMBDA seat :
    seat.bet + seat.chips - room.currentBet)

\* C22 (as claimed): an all-in that raises the bet to call by less than the
\* least raise (which is never below minBet) is stored and leaves the seats
\* that have acted in the round among those that have acted.
C22_ShortAllInKeepsActed ==
  [][\A k \in 1..Len(inflight) : \A p \in Players :
       (/\ Suspended(k, "request")
        /\ Fresh(k)
        /\ OwesAction(stored, p)
        /\ stored.players[PlayerIndex(stored, p)].chips > 0
        /\ AllInIncrease(stored, p) > 0
        /\ AllInIncrease(stored, p) < stored.minBet
        /\ PlayerAction(k, p, "allin", 0))
       => /\ stored'.players[PlayerIndex(stored', p)].allIn
          /\ stored'.phase = stored.phase
          /\ \A a \in 1..Len(stored.playersActedThisRound) :
               Includes(stored'.playersActedThisRound,
                        stored.playersActedThisRound[a])]_vars

\* the seats that had chips when the hand was started, in seat order
WithChipsAtStart(room) ==
  SelectSeq(room.players, LAMBDA seat : room.chipsAtHandStart[seat.id] > 0)

\* of the two seats that had chips when the hand was started, the one the
\* dealer cursor points at and the other one
Dealer(room) ==
  WithChipsAtStart(room)[(room.dealerIndex % 2) + 1].id

NonDealer(room) ==
  WithChipsAtStart(room)[((room.dealerIndex + 1) % 2) + 1].id

\* no seat has acted yet in the betting round of the room
RoundOpens(room) == InHand(room) /\ room.playersActedThisRound = <<>>

\* C23 (as claimed): in a hand that exactly two seats started with chips,
\* both still seated, the dealer is the small blind, the other seat the big blind, the dealer is
\* first to act before the flop and the other seat first to act on the flop,
\* the turn and the river.
C23_HeadsUpOrder ==
  (/\ RoundOpens(stored)
   /\ Cardinality({p \in Players : stored.chipsAtHandStart[p] > 0}) = 2
   /\ Len(WithChipsAtStart(stored)) = 2)
  => IF stored.phase = "preflop"
     THEN /\ stored.smallBlind = Dealer(stored)
          /\ stored.bigBlind = NonDealer(stored)
          /\ stored.currentTurn = Dealer(stored)
     ELSE stored.currentTurn = NonDealer(stored)

\* the seat the dealer cursor of the room points at, among the seats that had
\* chips when the hand of the room was started
HandDealer(room) ==
  Let(WithChipsAtStart(room), LAMBDA active :
    active[(room.dealerIndex % Len(active)) + 1].id)

\* the step starts a hand in a room whose previous hand is over
StartsNextHand ==
  /\ stored.phase \in {"showdown", "waiting"}
  /\ stored.smallBlind # Null
  /\ Len(WithChipsAtStart(stored)) >= 2
  /\ RoundOpens(stored')
  /\ stored'.phase = "preflop"
  /\ Len(WithChipsAtStart(stored')) >= 2

\* C24 (as claimed): the hand started after a hand has ended does not have the
\* dealer of that hand.
C24_DealerMoves ==
  [][StartsNextHand => HandDealer(stored') # HandDealer(stored)]_vars

\* nothing of a hand is left in the room
BetweenHandsClean(room) ==
  /\ room.pot = 0
  /\ room.currentBet = 0
  /\ room.currentTurn = Null
  /\ \A i \in 1..Len(room.players) :
       /\ room.players[i].bet = 0
       /\ room.players[i].hand = <<>>
       /\ ~room.players[i].folded
       /\ ~room.players[i].allIn

\* C25 (as claimed): a stored room in which a hand has been played and none
\* is in progress has pot, bet to call and turn cleared, and every seat with
\* no bet, no cards, not folded and not all-in.
C25_CleanBetweenHands ==
  (stored.smallBlind # Null /\ ~InHand(stored)) => BetweenHandsClean(stored)

\* the seats of `room` that have not folded and whose hand scores highest on
\* the board of `room`, in seat order
BestOnBoard(room) ==
  Let(SelectSeq(room.players, LAMBDA p : ~p.folded), LAMBDA shown :
    Let([i \in 1..Len(shown) |->
           evaluateHand(shown[i].hand, room.communityCards).score],
        LAMBDA score :
          Let(SelectSeq([i \in 1..Len(shown) |-> i],
                        LAMBDA i : \A j \in 1..Len(shown) : score[j] <= score[i]),
              LAMBDA best : [b \in 1..Len(best) |-> shown[best[b]].id])))

\* C26 (as claimed): when the creator ends a room in a hand with two or more
\* seats that have not folded, the showdown broadcast carries a board of five
\* cards that begins with the cards already dealt, and its winners are the
\* seats whose hands are best on that board.
C26_ForceEndDealsBoard ==
  [][\A k \in 1..Len(inflight) :
       (/\ Suspended(k, "request")
        /\ Fresh(k)
        /\ InHand(stored)
        /\ Len(NotFolded(stored)) >= 2
        /\ EndGame(k, stored.creator))
       => \E m \in 1..Len(sent') :
            /\ sent'[m].type = "showdown"
            /\ Len(sent'[m].room.communityCards) = 5
            /\ SubSeq(sent'[m].room.communityCards, 1,
                      Len(stored.communityCards)) = stored.communityCards
            /\ sent'[m].winners = BestOnBoard(sent'[m].room)]_vars

\* the bet to call a street opens with
OpeningBet(room) == IF room.phase = "preflop" THEN room.minBet ELSE 0

\* nobody has raised on the street
NotRaisedYet(room) ==
  /\ room.currentBet = OpeningBet(room)
  /\ room.lastRaiser = IF room.phase = "preflop" THEN room.bigBlind ELSE Null

\* the last raise of the street stands uncalled: its seat is not all-in and
\* every other seat has put in less than the bet to call
RaiseStands(room) ==
  /\ room.currentBet > OpeningBet(room)
  /\ InRoom(room, room.lastRaiser)
  /\ ~room.players[PlayerIndex(room, room.lastRaiser)].allIn
  /\ \A i \in 1..Len(room.players) :
       room.players[i].id # room.lastRaiser
         => room.players[i].bet < room.currentBet

\* the bet to call before the raise that stands: the most another seat has in
BetBeforeRaise(room) ==
  CHOOSE b \in 0..room.currentBet :
    /\ \E i \in 1..Len(room.players) :
         room.players[i].id # room.lastRaiser /\ room.players[i].bet = b
    /\ \A i \in 1..Len(room.players) :
         room.players[i].id # room.lastRaiser => room.players[i].bet <= b

\* the least increment a raise may have
MinRaise(room) ==
  IF RaiseStands(room) THEN room.currentBet - BetBeforeRaise(room)
  ELSE room.minBet

\* C27 (as claimed): a raise that leaves its seat with chips is rejected, the
\* room staying as it is, when it adds less than the minimum bet to a street
\* nobody has raised on, or less than the raise that stands uncalled added.
C27_ShortRaiseRejected ==
  [][\A k \in 1..Len(inflight) : \A p \in Players : \A amount \in {20, 60} :
       (/\ Suspended(k, "request")
        /\ Fresh(k)
        /\ OwesAction(stored, p)
        /\ NotRaisedYet(stored) \/ RaiseStands(stored)
        /\ amount < MinRaise(stored)
        /\ stored.currentBet + amount
             < stored.players[PlayerIndex(stored, p)].chips
               + stored.players[PlayerIndex(stored, p)].bet
        /\ PlayerAction(k, p, "raise", amount))
       => stored' = stored]_vars

C29_ChiplessSeatSitsOut ==
  (stored.status = "playing" /\ stored.smallBlind # Null)
    => \A i \in 1..Len(stored.players) :
         stored.chipsAtHandStart[stored.players[i].id] = 0
           => /\ stored.players[i].hand = <<>>
              /\ stored.currentTurn # stored.players[i].id
              /\ stored.players[i].chips = 0

\* C29, the cards apart: such a seat does not have the turn and has no chips
C29_ChiplessSeatOutOfPlay ==
  (stored.status = "playing" /\ stored.smallBlind # Null)
    => \A i \in 1..Len(stored.players) :
         stored.chipsAtHandStart[stored.players[i].id] = 0
           => /\ stored.currentTurn # stored.players[i].id
              /\ stored.players[i].chips = 0

\* C29, the pot alone: such a seat has no chips
C29_ChiplessSeatWinsNothing ==
  (stored.status = "playing" /\ stored.smallBlind # Null)
    => \A i \in 1..Len(stored.players) :
         stored.chipsAtHandStart[stored.players[i].id] = 0
           => stored.players[i].chips = 0

\* the broadcasts that tell of a round or a hand that an action ended
Consequences == {"phase_change", "showdown"}

\* C30 (as claimed): among the broadcasts of one processPlayerAction, the
\* player_action message comes before the phase_change or showdown message.
C30_ActionBeforeItsConsequence ==
  \A m \in 1..Len(sent) : \A n \in 1..Len(sent) :
    (sent[m].type = "player_action" /\ sent[n].type \in Consequences) => m < n

NonNegativeChips(room) ==
  \A i \in 1..Len(room.players) : room.players[i].chips >= 0

\* amounts a request may carry: negative, zero, below and above the minimum bet
Amounts == {-20, 0, 5, 20, 60, 400}

\* C32: no seat of the stored room has a negative stack, and no action of the
\* engine that is accepted on the stored room, whatever its seat and amount,
\* leaves a seat with a negative stack.
C32_ChipsNeverNegative ==
  /\ NonNegativeChips(stored)
  /\ \A i \in 1..Len(stored.players) : \A amount \in Amounts :
       \A action \in {"call", "bet", "raise", "allin"} :
         Let(ApplyActionCase(stored, i, action, amount), LAMBDA res :
           res.ok => NonNegativeChips(res.room))

\* a seat has put its last chips in for less than the bet to call
C32_Witness ==
  /\ InHand(stored)
  /\ \E i \in 1..Len(stored.players) :
       /\ stored.chipsAtHandStart[stored.players[i].id] > 0
       /\ stored.players[i].chips = 0
       /\ stored.players[i].allIn
       /\ stored.players[i].bet < stored.currentBet

\* the hole cards of the seats from seat i on, in seat order
RECURSIVE HoleCardsFrom(_, _)
HoleCardsFrom(room, i) ==
  IF i > Len(room.players) THEN <<>>
  ELSE room.players[i].hand \o HoleCardsFrom(room, i + 1)

\* every card the room holds, place after place
CardsOfRoom(room) ==
  HoleCardsFrom(room, 1) \o room.communityCards \o room.burned \o room.deck

\* C33 (as claimed): during a hand the hole cards, the community cards, the
\* burned cards and the deck of the stored room are 52 cards, all different.
C33_CardsConserved ==
  InHand(stored)
    => /\ Len(CardsOfRoom(stored)) = 52
       /\ Cardinality({CardsOfRoom(stored)[n] : n \in 1..Len(CardsOfRoom(stored))})
            = 52

\* C33, in rooms that no seat has left since the hand started
C33_CardsConservedWhileSeated ==
  (InHand(stored) /\ \A p \in Players :
                       stored.chipsAtHandStart[p] > 0 => InRoom(stored, p))
    => /\ Len(CardsOfRoom(stored)) = 52
       /\ Cardinality({CardsOfRoom(stored)[n] : n \in 1..Len(CardsOfRoom(stored))})
            = 52

\* the strength of a straight whose highest card is `top`, the wheel being 5
StraightStrength(top) ==
  4 * (15 * 15 * 15 * 15 * 15)
  + InBase15(<<top, top - 1, top - 2, top - 3, top - 4>>)

\* the cards that result m of the showdown was computed from
EvaluatedCards(m) == sent[m].hand \o stored.communityCards

\* the best five cards of result m are a straight topped by `top`, not a flush
BestIsStraight(m, top) == HoldemStrength(EvaluatedCards(m)) = StraightStrength(top)

\* C34: a hand whose best five cards are A-2-3-4-5 not of one suit is
\* evaluated as a Straight led by the 5, and it scores less than every hand
\* whose best five cards are 2-3-4-5-6 not of one suit.
C34_WheelIsFiveHigh ==
  \A m \in 1..Len(sent) :
    BestIsStraight(m, 5)
      => /\ sent[m].handValue.name = "Straight"
         /\ sent[m].handValue.cards[1].value = 5
         /\ sent[m].score
              < evaluateHand(<<Card("clubs", "2"), Card("diamonds", "3")>>,
                             <<Card("spades", "4"), Card("hearts", "5"),
                               Card("diamonds", "6")>>).score
         /\ \A n \in 1..Len(sent) :
              BestIsStraight(n, 6) => sent[m].score < sent[n].score

\* a showdown of a wheel against a six-high straight, both evaluated
C34_Witness ==
  /\ Len(sent) = 2
  /\ \E m \in 1..2 : \E n \in 1..2 : BestIsStraight(m, 5) /\ BestIsStraight(n, 6)

\* C35 (as claimed): when nextPhase deals the next street for a playerAction
\* whose action completed the round, the room it stores has the chips and
\* the folded mark of the acting seat, and the pot, as the action left them.
C35_LastActionKept ==
  [][\A k \in 1..Len(inflight) :
       (/\ Suspended(k, "nextPhase")
        /\ inflight[k].room.phase # "river"
        /\ ServiceNextPhase(k))
       => Let(PlayerIndex(inflight[k].held, inflight[k].player), LAMBDA i :
            /\ stored'.pot = inflight[k].held.pot
            /\ stored'.players[i].chips = inflight[k].held.players[i].chips
            /\ stored'.players[i].folded = inflight[k].held.players[i].folded)]_vars

\* every seat of `room` that can still bet has put in the bet to call
AllMatched(room) ==
  \A i \in 1..Len(room.players) :
    (~room.players[i].folded /\ ~room.players[i].allIn)
      => room.players[i].bet >= room.currentBet

\* C36 (as claimed): a playerAction that deals community cards and goes to
\* the showdown at once does so on a room in which every seat that is neither
\* folded nor all-in has put in the bet to call.
C36_RunOutOnlyWhenMatched ==
  [][\A k \in 1..Len(inflight) : \A p \in Players : \A in \in ServiceInputs :
       (/\ Suspended(k, "request")
        /\ Fresh(k)
        /\ InHand(stored)
        /\ ServiceAction(k, p, in.action, in.amount))
       => \A m \in 1..Len(sent') :
            (/\ sent' # sent
             /\ sent'[m].type = "showdown"
             /\ Len(sent'[m].room.communityCards) > Len(stored.communityCards))
            => AllMatched(sent'[m].room)]_vars

\* C37 (as claimed): whenever a hand is in progress in the stored room, the
\* room is later between hands.
C37_HandEnds == InHand(stored) ~> ~InHand(stored)


\* C38 (as claimed): a request of the seat on turn that is rejected on the
\* room as stored leaves the turn deadline of that seat pending.
C38_RejectionKeepsDeadline ==
  [][\A k \in 1..Len(inflight) : \A p \in Players : \A in \in Inputs :
       (/\ p \in playerTimeouts
        /\ Suspended(k, "request")
        /\ Fresh(k)
        /\ OwesAction(stored, p)
        /\ Violates(stored, p, in)
        /\ PlayerAction(k, p, in.action, in.amount))
       => p \in playerTimeouts']_vars

\* C39 (as claimed): a next-hand countdown that takes effect while a hand is in
\* progress in the stored room leaves that room as it is.
C39_CountdownKeepsHand ==
  [][\A k \in 1..Len(inflight) : \A seed \in 0..(budget.seeds - 1) :
       (/\ Suspended(k, "nexthand")
        /\ InHand(stored)
        /\ AutoStart(k, seed))
       => GameFields(stored') = GameFields(stored)]_vars

\* C40 (as claimed): a reconnection timer that takes effect when its seat is
\* connected in the stored room leaves the seat in the room.
C40_ReconnectedSeatStays ==
  [][\A k \in 1..Len(inflight) :
       (/\ Suspended(k, "reconnect")
        /\ InRoom(stored, inflight[k].player)
        /\ stored.players[PlayerIndex(stored, inflight[k].player)].connected
        /\ RemoveDisconnected(k))
       => InRoom(stored', inflight[k].player)]_vars

====
